---- MODULE Spec2Model ----
(***************************************************************************)
(* A model of collect-usage.js (Claude Usage Collector v4): the helpers,   *)
(* the format parsers, the source collectors, the session cache and the    *)
(* main pipeline.                                                          *)
(*                                                                         *)
(* Units.  Epoch times are counted in seconds (one unit = 1000 ms of the   *)
(* source), so that they fit TLC's integers.  Bucket costs are counted in  *)
(* 1e-8 USD (token count * rate per million * 100), session costs in       *)
(* 1e-4 USD (the four decimals the source rounds to).                      *)
(***************************************************************************)
EXTENDS Integers, Sequences, FiniteSets, TLC

VARIABLES
    disk,            \* the log files under HOME: path -> file or NoFile
    cacheFile,       \* content of CACHE_FILE (data/sessions-cache.json)
    tmpFile,         \* content of CACHE_FILE + '.tmp'
    dataJs,          \* content of data/data.js
    pc,              \* position of the process in the script
    srcIdx,          \* index into `sources` of the collector that runs next
    allSessions,     \* let allSessions
    cachedSessions,  \* const cachedSessions
    written,         \* number of ledger entries writeFileSync has put in tmpFile
    oldCache,        \* content of CACHE_FILE when saveCache was last entered
    scanned,         \* per fresh session: the physical file it was derived from
    calls,           \* the calls main has completed in this run, in order
    loadArg,         \* what each loadCache call of this run found in CACHE_FILE
    mergeArg,        \* each mergeSessions call of this run: arguments and result
    saveArg,         \* the argument of each saveCache call of this run
    runs,            \* number of runs started
    edits,           \* number of changes made to the log files
    prevLedger,      \* the ledger persisted by the previous run, or NoLedger
    changed,         \* paths created, appended to or deleted since the last run
    appended,        \* paths appended to since the last run that the ledger knew
    orphans,         \* sessions persisted for log files that were since deleted
    fnArg,           \* a call of one function of the script: its name and arguments
    fnRet,           \* what the calls made for fnArg returned, in order
    expanded,        \* the day rows of the session table that have class expanded
    open,            \* the days whose detail wrapper has class open
    bars,            \* the days whose cost bars were given their width
    btnExpanded,     \* toggle-all button: class is-expanded, label 'Collapse All'
    currentView,     \* let currentView of the heatmap
    toggleShows,     \* the view that the toggle's buttons, slider and title show
    active,          \* the heatmap views that have class heatmap-view-active
    exiting,         \* the heatmap views that have class heatmap-view-exiting
    timers,          \* the pending setTimeout callbacks of the page, oldest first
    clicks           \* number of clicks and key presses made on the page

\* the state of a run of the script
runVars == <<disk, cacheFile, tmpFile, dataJs, pc, srcIdx, allSessions,
             cachedSessions, written, oldCache, scanned, calls, loadArg, mergeArg,
             saveArg, runs, edits, prevLedger, changed, appended, orphans>>

\* the state of a single function call
fnVars == <<fnArg, fnRet>>

\* the state of the dashboard page
uiVars == <<expanded, open, bars, btnExpanded, currentView, toggleShows, active,
            exiting, timers, clicks>>

vars == <<runVars, fnVars, uiVars>>

\* the page after initHeatmap and renderTable: `let currentView = 'hours'`,
\* every day row collapsed, updateToggleAllButton(false), no timer pending;
\* the markup is taken to show the view that currentView names
PageLoaded ==
    /\ expanded = {}
    /\ open = {}
    /\ bars = {}
    /\ btnExpanded = FALSE
    /\ currentView = "hours"
    /\ toggleShows = "hours"
    /\ active = {"hours"}
    /\ exiting = {}
    /\ timers = <<>>
    /\ clicks = 0

----------------------------------------------------------------------------
(* `const x = e; ... x ...` : the value of F at e, with e computed once *)

Once(e, F(_)) == CHOOSE r \in {F(x) : x \in {e}} : TRUE

----------------------------------------------------------------------------
(* Strings *)

\* The characters the model's strings are written in, in ASCII order.
Alphabet == " -./0123456789:ABCDEFGHIJKLMNOPQRSTUVWXYZ_abcdefghijklmnopqrstuvwxyz|"

CharAt(i) == SubSeq(Alphabet, i, i)
Chars == {CharAt(i) : i \in 1..Len(Alphabet)}
CodeOf == [c \in Chars |-> CHOOSE i \in 1..Len(Alphabet) : CharAt(i) = c]

\* the position of a character in the alphabet
CharCode(c) == CodeOf[c]

\* String.prototype.includes
Includes(s, pat) ==
    \E i \in 1..(Len(s) - Len(pat) + 1) : SubSeq(s, i, i + Len(pat) - 1) = pat

\* String.prototype.startsWith
StartsWith(s, pat) == Len(pat) <= Len(s) /\ SubSeq(s, 1, Len(pat)) = pat

\* String.prototype.endsWith
EndsWith(s, pat) ==
    Len(pat) <= Len(s) /\ SubSeq(s, Len(s) - Len(pat) + 1, Len(s)) = pat

\* a < b in JavaScript's string order (Array.prototype.sort's default)
RECURSIVE StrLess(_, _)
StrLess(a, b) ==
    IF Len(b) = 0 THEN FALSE
    ELSE IF Len(a) = 0 THEN TRUE
    ELSE IF Head(a) = Head(b) THEN StrLess(Tail(a), Tail(b))
    ELSE CharCode(Head(a)) < CharCode(Head(b))

LowerOf ==
    [c \in Chars |->
        IF CodeOf[c] >= CodeOf["A"] /\ CodeOf[c] <= CodeOf["Z"]
        THEN CharAt(CodeOf["a"] + (CodeOf[c] - CodeOf["A"]))
        ELSE c]

LowerChar(c) == LowerOf[c]

\* String.prototype.toLowerCase
RECURSIVE ToLowerCase(_)
ToLowerCase(s) ==
    IF Len(s) = 0 THEN "" ELSE LowerChar(Head(s)) \o ToLowerCase(Tail(s))

\* index of the last occurrence of the one-character string c in s, or 0
LastIndexOf(s, c) ==
    LET I == {i \in 1..Len(s) : SubSeq(s, i, i) = c}
    IN IF I = {} THEN 0 ELSE CHOOSE i \in I : \A j \in I : j <= i

\* path.basename
Basename(p) == SubSeq(p, LastIndexOf(p, "/") + 1, Len(p))

\* path.join of a directory and one name
PathJoin(dir, name) == dir \o "/" \o name

----------------------------------------------------------------------------
(* JavaScript values, as JSON.parse produces them *)

Undef == [t |-> "undefined"]
Null == [t |-> "null"]
Num(n) == [t |-> "number", v |-> n]
Str(s) == [t |-> "string", v |-> s]
Obj(fields) == [t |-> "object", v |-> fields]

\* ToBoolean
Truthy(x) ==
    CASE x.t = "undefined" -> FALSE
      [] x.t = "null" -> FALSE
      [] x.t = "number" -> x.v # 0
      [] x.t = "string" -> x.v # ""
      [] OTHER -> TRUE

\* a || b and a && b
JsOr(a, b) == IF Truthy(a) THEN a ELSE b
JsAnd(a, b) == IF Truthy(a) THEN b ELSE a

\* x.f : property access on a value that is neither null nor undefined
Get(x, f) ==
    IF x.t = "object" /\ f \in DOMAIN x.v THEN x.v[f] ELSE Undef

\* x.f throws a TypeError
GetThrows(x) == x.t \in {"undefined", "null"}

\* typeof x
TypeOf(x) == IF x.t \in {"null", "array"} THEN "object" ELSE x.t

----------------------------------------------------------------------------
(* Dates: what new Date(...), getTime() and toISOString() compute *)

\* const TZ_OFFSET = -new Date().getTimezoneOffset() / 60 : hours east of UTC
\* of the host the model runs on
TZ_OFFSET == 1

SecondsPerHour == 3600
SecondsPerDay == 86400

Digits == {"0", "1", "2", "3", "4", "5", "6", "7", "8", "9"}
IsDigit(c) == c \in Digits
DigitVal(c) == CodeOf[c] - CodeOf["0"]
DigitStr(n) == SubSeq("0123456789", n + 1, n + 1)

AllDigits(s) == Once(s, LAMBDA x : \A i \in 1..Len(x) : IsDigit(SubSeq(x, i, i)))

RECURSIVE ParseNat(_)
ParseNat(s) ==
    Once(s, LAMBDA x :
        IF Len(x) = 0 THEN 0
        ELSE ParseNat(SubSeq(x, 1, Len(x) - 1)) * 10 + DigitVal(SubSeq(x, Len(x), Len(x))))

Pad2(n) == DigitStr(n \div 10) \o DigitStr(n % 10)
Pad4(n) == Pad2(n \div 100) \o Pad2(n % 100)

\* days since 1970-01-01 of the civil date y-m-d
DaysFromCivil(y, m, d) ==
    LET yy == IF m <= 2 THEN y - 1 ELSE y
        era == yy \div 400
        yoe == yy - era * 400
        mp == IF m > 2 THEN m - 3 ELSE m + 9
        doy == (153 * mp + 2) \div 5 + d - 1
        doe == yoe * 365 + yoe \div 4 - yoe \div 100 + doy
    IN era * 146097 + doe - 719468

\* the civil date of a day number, as toISOString prints it (years 0..9999)
CivilFromDays(days) ==
    LET z == days + 719468
        era == z \div 146097
        doe == z - era * 146097
        yoe == (doe - doe \div 1460 + doe \div 36524 - doe \div 146096) \div 365
        doy == doe - (365 * yoe + yoe \div 4 - yoe \div 100)
        mp == (5 * doy + 2) \div 153
        d == doy - (153 * mp + 2) \div 5 + 1
        m == IF mp < 10 THEN mp + 3 ELSE mp - 9
        y == yoe + era * 400 + (IF m <= 2 THEN 1 ELSE 0)
    IN Pad4(y) \o "-" \o Pad2(m) \o "-" \o Pad2(d)

\* new Date(s).getTime() for the two ISO forms "YYYY-MM-DD" and
\* "YYYY-MM-DDTHH:MM:SSZ"; -1 stands for NaN (an invalid date).  Every other
\* string is taken to be unparseable.
DateParse(s) ==
    LET dateOk == /\ Len(s) >= 10
                  /\ AllDigits(SubSeq(s, 1, 4)) /\ SubSeq(s, 5, 5) = "-"
                  /\ AllDigits(SubSeq(s, 6, 7)) /\ SubSeq(s, 8, 8) = "-"
                  /\ AllDigits(SubSeq(s, 9, 10))
        y == ParseNat(SubSeq(s, 1, 4))
        m == ParseNat(SubSeq(s, 6, 7))
        d == ParseNat(SubSeq(s, 9, 10))
        timeOk == /\ Len(s) = 20
                  /\ SubSeq(s, 11, 11) = "T" /\ SubSeq(s, 20, 20) = "Z"
                  /\ AllDigits(SubSeq(s, 12, 13)) /\ SubSeq(s, 14, 14) = ":"
                  /\ AllDigits(SubSeq(s, 15, 16)) /\ SubSeq(s, 17, 17) = ":"
                  /\ AllDigits(SubSeq(s, 18, 19))
        hh == ParseNat(SubSeq(s, 12, 13))
        mi == ParseNat(SubSeq(s, 15, 16))
        ss == ParseNat(SubSeq(s, 18, 19))
    IN IF ~dateOk THEN -1
       ELSE Once(<<y, m, d>>, LAMBDA ymd :
            IF ymd[2] < 1 \/ ymd[2] > 12 \/ ymd[3] < 1 \/ ymd[3] > 31 THEN -1
            ELSE Once(DaysFromCivil(ymd[1], ymd[2], ymd[3]), LAMBDA days :
                 IF Len(s) = 10 THEN days * SecondsPerDay
                 ELSE IF timeOk /\ hh <= 23 /\ mi <= 59 /\ ss <= 59
                      THEN days * SecondsPerDay + hh * SecondsPerHour + mi * 60 + ss
                 ELSE -1))

\* function toLocalDate(timestampMs): a string, or null
toLocalDate(timestampMs) ==
    IF ~Truthy(timestampMs) THEN Null
    ELSE Once((timestampMs.v + TZ_OFFSET * SecondsPerHour) \div SecondsPerDay,
              LAMBDA days : Str(CivilFromDays(days)))

\* function toLocalTime(timestampMs): "HH:MM", or null
toLocalTime(timestampMs) ==
    IF ~Truthy(timestampMs) THEN Null
    ELSE Once((timestampMs.v + TZ_OFFSET * SecondsPerHour) % SecondsPerDay, LAMBDA sec :
              Str(Pad2(sec \div SecondsPerHour) \o ":" \o Pad2((sec % SecondsPerHour) \div 60)))

\* function parseTimestamp(ts): a number, or null
parseTimestamp(ts) ==
    IF ~Truthy(ts) THEN Null
    ELSE IF TypeOf(ts) = "number" THEN ts
    ELSE IF TypeOf(ts) = "string"
         THEN Once(DateParse(ts.v), LAMBDA ms : IF ms = -1 THEN Null ELSE Num(ms))
    ELSE Null

----------------------------------------------------------------------------
(* Pricing: rates in USD per million tokens, times 100 *)

Rate(i, o, cw, cr) == [input |-> i, output |-> o, cacheWrite |-> cw, cacheRead |-> cr]

\* model.toLowerCase() throws a TypeError: model is truthy and has no such
\* method
getPricingThrows(model) == Truthy(model) /\ TypeOf(model) # "string"

\* getPricing with the Haiku rate in its last return
getPricingLastHaiku(model) ==
    IF ~Truthy(model) THEN Rate(300, 1500, 375, 30)
    ELSE Once(ToLowerCase(model.v), LAMBDA m :
         IF Includes(m, "opus-4-6") \/ Includes(m, "opus-4.6")
            \/ Includes(m, "opus-4-5") \/ Includes(m, "opus-4.5")
         THEN Rate(500, 2500, 625, 50)
         ELSE IF Includes(m, "opus-4-1") \/ Includes(m, "opus-4.1")
         THEN Rate(1500, 7500, 1875, 150)
         ELSE IF Includes(m, "opus") THEN Rate(1500, 7500, 1875, 150)
         ELSE IF Includes(m, "sonnet") THEN Rate(300, 1500, 375, 30)
         ELSE IF Includes(m, "haiku-4-5") \/ Includes(m, "haiku-4.5")
         THEN Rate(100, 500, 125, 10)
         ELSE Rate(25, 125, 30, 3))

\* getPricing without the rows of the versioned tags
getPricingFamiliesOnly(model) ==
    IF ~Truthy(model) THEN Rate(300, 1500, 375, 30)
    ELSE Once(ToLowerCase(model.v), LAMBDA m :
         IF Includes(m, "opus") THEN Rate(1500, 7500, 1875, 150)
         ELSE IF Includes(m, "sonnet") THEN Rate(300, 1500, 375, 30)
         ELSE IF Includes(m, "haiku") THEN Rate(25, 125, 30, 3)
         ELSE Rate(300, 1500, 375, 30))

\* function getPricing(model)
getPricing(model) ==
    IF ~Truthy(model) THEN Rate(300, 1500, 375, 30)
    ELSE Once(ToLowerCase(model.v), LAMBDA m :
         IF Includes(m, "opus-4-6") \/ Includes(m, "opus-4.6")
            \/ Includes(m, "opus-4-5") \/ Includes(m, "opus-4.5")
         THEN Rate(500, 2500, 625, 50)
         ELSE IF Includes(m, "opus-4-1") \/ Includes(m, "opus-4.1")
         THEN Rate(1500, 7500, 1875, 150)
         ELSE IF Includes(m, "opus") THEN Rate(1500, 7500, 1875, 150)
         ELSE IF Includes(m, "sonnet") THEN Rate(300, 1500, 375, 30)
         ELSE IF Includes(m, "haiku-4-5") \/ Includes(m, "haiku-4.5")
         THEN Rate(100, 500, 125, 10)
         ELSE IF Includes(m, "haiku") THEN Rate(25, 125, 30, 3)
         ELSE Rate(300, 1500, 375, 30))

----------------------------------------------------------------------------
(* The log files.  A path is relative to HOME.  A file holds its non-blank  *)
(* lines, each already given as the value JSON.parse returns for it (or    *)
(* BadJson when JSON.parse throws), and its modification time.             *)

BadJson == [t |-> "badjson"]
Arr(seq) == [t |-> "array", v |-> seq]

NoFile == [exists |-> FALSE]
File(lines, mtime) == [exists |-> TRUE, lines |-> lines, mtime |-> mtime]

\* the paths of the files that exist on d
Present(d) == {p \in DOMAIN d : d[p].exists}

\* fs.existsSync(dir), for a directory that is never left empty
ExistsDir(d, dir) == \E p \in Present(d) : StartsWith(p, dir \o "/")

\* the first component of a relative path
FirstComponent(rest) ==
    LET I == {i \in 1..Len(rest) : SubSeq(rest, i, i) = "/"}
    IN IF I = {} THEN rest
       ELSE SubSeq(rest, 1, (CHOOSE i \in I : \A j \in I : i <= j) - 1)

\* the names fs.readdirSync(dir) returns
EntryNames(d, dir) ==
    {FirstComponent(SubSeq(p, Len(dir) + 2, Len(p))) :
        p \in {q \in Present(d) : StartsWith(q, dir \o "/")}}

\* entry.isDirectory()
IsDirectory(d, path) == \E p \in Present(d) : StartsWith(p, path \o "/")

\* a set of strings as the sequence in ascending string order, the order
\* readdirSync lists a directory in
RECURSIVE SortedSeq(_)
SortedSeq(S) ==
    IF S = {} THEN <<>>
    ELSE Once(CHOOSE x \in S : \A y \in S : y = x \/ StrLess(x, y),
              LAMBDA m : <<m>> \o SortedSeq(S \ {m}))

ReadDir(d, dir) == SortedSeq(EntryNames(d, dir))

\* findJsonl's default maxDepth
DefaultMaxDepth == 10

\* function findJsonl(dir, maxDepth = 10)
RECURSIVE findJsonl(_, _, _)
RECURSIVE findJsonlEntries(_, _, _, _)
findJsonlEntries(d, dir, names, maxDepth) ==
    IF names = <<>> THEN <<>>
    ELSE LET name == Head(names)
             fullPath == PathJoin(dir, name)
             here == IF IsDirectory(d, fullPath) /\ ~StartsWith(name, ".git")
                     THEN findJsonl(d, fullPath, maxDepth - 1)
                     ELSE IF EndsWith(name, ".jsonl") /\ ~Includes(name, "audit")
                     THEN <<fullPath>>
                     ELSE <<>>
         IN here \o findJsonlEntries(d, dir, Tail(names), maxDepth)

findJsonl(d, dir, maxDepth) ==
    IF maxDepth <= 0 THEN <<>>
    ELSE Once(ReadDir(d, dir), LAMBDA names : findJsonlEntries(d, dir, names, maxDepth))

----------------------------------------------------------------------------
(* Day buckets and sessions *)

\* function makeDayEntry()
makeDayEntry ==
    [cost |-> 0, input_tokens |-> 0, output_tokens |-> 0, cache_read |-> 0,
     cache_write |-> 0, models |-> <<>>, times |-> <<>>]

\* dayData is an object keyed by date; its entries in insertion order
HasDay(dayData, date) == \E i \in 1..Len(dayData) : dayData[i].date = date
DayIndex(dayData, date) == CHOOSE i \in 1..Len(dayData) : dayData[i].date = date

\* if (!dayData[date]) dayData[date] = makeDayEntry()
WithDay(dayData, date) ==
    IF HasDay(dayData, date) THEN dayData
    ELSE Append(dayData, [date |-> date, dd |-> makeDayEntry])

\* Set.prototype.add on a set kept in insertion order
SetAdd(seq, x) ==
    IF \E i \in 1..Len(seq) : seq[i] = x THEN seq ELSE Append(seq, x)

\* AddEvent with the counts added to the first bucket of the file
AddEventToFirst(dayData, date, time, model, inp, out, cr, cw, cost) ==
    Once([withDay |-> WithDay(dayData, date), date |-> date, time |-> time,
          model |-> model, add |-> <<cost, inp, out, cr, cw>>],
         LAMBDA a :
    LET dd == a.withDay[1].dd
        dd2 == [cost |-> dd.cost + a.add[1],
                input_tokens |-> dd.input_tokens + a.add[2],
                output_tokens |-> dd.output_tokens + a.add[3],
                cache_read |-> dd.cache_read + a.add[4],
                cache_write |-> dd.cache_write + a.add[5],
                models |-> IF a.model = "" THEN dd.models ELSE SetAdd(dd.models, a.model),
                times |-> IF Truthy(a.time) THEN Append(dd.times, a.time.v) ELSE dd.times]
    IN [a.withDay EXCEPT ![1] = [date |-> a.withDay[1].date, dd |-> dd2]])

\* one accepted usage event added to its day bucket.  model is the string to
\* record in dd.models, or "" when the event's model is not recorded.
AddEvent(dayData, date, time, model, inp, out, cr, cw, cost) ==
    Once([withDay |-> WithDay(dayData, date), date |-> date, time |-> time,
          model |-> model, add |-> <<cost, inp, out, cr, cw>>],
         LAMBDA a :
    LET i == DayIndex(a.withDay, a.date)
        dd == a.withDay[i].dd
        dd2 == [cost |-> dd.cost + a.add[1],
                input_tokens |-> dd.input_tokens + a.add[2],
                output_tokens |-> dd.output_tokens + a.add[3],
                cache_read |-> dd.cache_read + a.add[4],
                cache_write |-> dd.cache_write + a.add[5],
                models |-> IF a.model = "" THEN dd.models ELSE SetAdd(dd.models, a.model),
                times |-> IF Truthy(a.time) THEN Append(dd.times, a.time.v) ELSE dd.times]
    IN [a.withDay EXCEPT ![i] = [date |-> a.date, dd |-> dd2]])

\* the rate formula of the parsers, in 1e-8 USD
TokenCost(pricing, inp, out, cw, cr) ==
    inp * pricing.input + out * pricing.output
        + cw * pricing.cacheWrite + cr * pricing.cacheRead

\* the first recorded time, without the sort
MinTimeUnsorted(times) == times[1]

\* data.times.sort()[0]
MinTime(times) ==
    CHOOSE x \in {times[i] : i \in 1..Len(times)} :
        \A j \in 1..Len(times) : times[j] = x \/ StrLess(x, times[j])

\* 0.0001 USD in units of 1e-8 USD
NegligibleCost == 10000

\* parseFloat(cost.toFixed(4)), in units of 1e-4 USD.  A cost that lies
\* halfway between two such units is rounded up here; toFixed decides it by the
\* binary value of the sum; the properties below accept either.
Round4(cost) == (cost + 5000) \div 10000

\* the object of pushSessions with the first model of the bucket
SessionOfFirstModel(date, data, source, fileName) ==
    Obj([date |-> Str(date),
         time |-> Str(IF Len(data.times) > 0 THEN MinTime(data.times) ELSE "00:00"),
         source |-> Str(source),
         file |-> Str(fileName),
         cost |-> Num(Round4(data.cost)),
         input_tokens |-> Num(data.input_tokens),
         output_tokens |-> Num(data.output_tokens),
         cache_read |-> Num(data.cache_read),
         cache_write |-> Num(data.cache_write),
         model |-> Str(IF Len(data.models) > 0 THEN data.models[1] ELSE "")])

\* the object pushSessions pushes for one day bucket
SessionOf(date, data, source, fileName) ==
    Obj([date |-> Str(date),
         time |-> Str(IF Len(data.times) > 0 THEN MinTime(data.times) ELSE "00:00"),
         source |-> Str(source),
         file |-> Str(fileName),
         cost |-> Num(Round4(data.cost)),
         input_tokens |-> Num(data.input_tokens),
         output_tokens |-> Num(data.output_tokens),
         cache_read |-> Num(data.cache_read),
         cache_write |-> Num(data.cache_write),
         model |-> Str(IF Len(data.models) > 0 THEN data.models[Len(data.models)] ELSE "")])

\* pushSessions with the test made on the rounded cost: a bucket is dropped
\* when its cost rounds to 0
RECURSIVE pushSessionsRoundFirst(_, _, _, _)
pushSessionsRoundFirst(sessions, dayData, source, fileName) ==
    IF dayData = <<>> THEN sessions
    ELSE LET e == Head(dayData)
         IN pushSessionsRoundFirst(IF Round4(e.dd.cost) < 1 THEN sessions
                                   ELSE Append(sessions, SessionOf(e.date, e.dd, source, fileName)),
                                   Tail(dayData), source, fileName)

\* function pushSessions(sessions, dayData, source, fileName): the new sessions
RECURSIVE pushSessions(_, _, _, _)
pushSessions(sessions, dayData, source, fileName) ==
    IF dayData = <<>> THEN sessions
    ELSE LET e == Head(dayData)
         IN pushSessions(IF e.dd.cost < NegligibleCost THEN sessions
                         ELSE Append(sessions, SessionOf(e.date, e.dd, source, fileName)),
                         Tail(dayData), source, fileName)

----------------------------------------------------------------------------
(* The format parsers.  A parser returns [threw, dayData]: threw says that *)
(* an exception left the parser, dayData is what `return dayData` gives.   *)
(* Token counts and costs in the logs are taken to be numbers or absent.   *)

Returned(dayData) == [threw |-> FALSE, dayData |-> dayData]
Threw == [threw |-> TRUE, dayData |-> <<>>]

\* let fallbackDate = null; try { fallbackDate = toLocalDate(statSync(..).mtimeMs) } catch {}
FallbackDate(file) == toLocalDate(Num(file.mtime))

\* the model to record, given that `model` is a string: model && model.startsWith('claude')
ClaudePrefixed(model) ==
    IF Truthy(model) /\ StartsWith(model.v, "claude") THEN model.v ELSE ""

\* the model to record: model && model.includes('claude')
ClaudeIncluded(model) ==
    IF Truthy(model) /\ Includes(model.v, "claude") THEN model.v ELSE ""

\* model.startsWith / model.includes throws a TypeError
ModelThrows(model) == Truthy(model) /\ TypeOf(model) # "string"

\* const date = tsMs ? toLocalDate(tsMs) : fallbackDate;
\* const time = tsMs ? toLocalTime(tsMs) : '00:00';
Stamp(tsMs, fallbackDate) ==
    Once(tsMs, LAMBDA ms :
        [date |-> IF Truthy(ms) THEN toLocalDate(ms) ELSE fallbackDate,
         time |-> IF Truthy(ms) THEN toLocalTime(ms) ELSE Str("00:00")])

\* one iteration of parseOpenClawFormat's loop over the lines
OpenClawLine(entry, dayData, fallbackDate) ==
    IF entry = BadJson THEN Returned(dayData)
    ELSE IF GetThrows(entry) THEN Threw
    ELSE
    LET msg == Get(entry, "message")
        usage == JsOr(JsAnd(msg, Get(msg, "usage")), Get(entry, "usage"))
        ucost == Get(usage, "cost")
        tsMs == JsOr(parseTimestamp(Get(entry, "timestamp")),
                     parseTimestamp(JsAnd(msg, Get(msg, "timestamp"))))
        model == JsOr(JsOr(JsAnd(msg, Get(msg, "model")), Get(entry, "model")), Str(""))
        inp == JsOr(Get(usage, "input"), Num(0)).v
        out == JsOr(Get(usage, "output"), Num(0)).v
        cr == JsOr(Get(usage, "cacheRead"), Num(0)).v
        cw == JsOr(Get(usage, "cacheWrite"), Num(0)).v
        cost == IF Truthy(JsAnd(ucost, Get(ucost, "total")))
                THEN Get(ucost, "total").v
                ELSE TokenCost(getPricing(model), inp, out, cw, cr)
    IN IF ~Truthy(usage) THEN Returned(dayData)
       ELSE IF ~Truthy(ucost) /\ ~Truthy(Get(usage, "input")) /\ ~Truthy(Get(usage, "output"))
       THEN Returned(dayData)
       ELSE Once(Stamp(tsMs, fallbackDate), LAMBDA at :
            IF ~Truthy(at.date) THEN Returned(dayData)
            ELSE IF ModelThrows(model) THEN Threw
            ELSE Returned(AddEvent(dayData, at.date.v, at.time, ClaudePrefixed(model),
                                   inp, out, cr, cw, cost)))

\* parseClaudeCodeFormat's iteration without the test for four zero counts
ClaudeCodeLineKeepZero(entry, dayData, fallbackDate) ==
    IF entry = BadJson THEN Returned(dayData)
    ELSE IF GetThrows(entry) THEN Threw
    ELSE
    LET msg == Get(entry, "message")
        usage == JsOr(JsAnd(msg, Get(msg, "usage")), Get(entry, "usage"))
        inputTok == JsOr(Get(usage, "input_tokens"), Num(0)).v
        outputTok == JsOr(Get(usage, "output_tokens"), Num(0)).v
        cacheWrite == JsOr(Get(usage, "cache_creation_input_tokens"), Num(0)).v
        cacheRead == JsOr(Get(usage, "cache_read_input_tokens"), Num(0)).v
        tsMs == JsOr(parseTimestamp(Get(entry, "timestamp")),
                     parseTimestamp(JsAnd(msg, Get(msg, "timestamp"))))
        model == JsOr(JsOr(JsAnd(msg, Get(msg, "model")), Get(entry, "model")), Str(""))
    IN IF ~Truthy(usage) THEN Returned(dayData)
       ELSE Once(Stamp(tsMs, fallbackDate), LAMBDA at :
            IF ~Truthy(at.date) THEN Returned(dayData)
            ELSE IF ModelThrows(model) THEN Threw
            ELSE Returned(AddEvent(dayData, at.date.v, at.time, ClaudePrefixed(model),
                                   inputTok, outputTok, cacheRead, cacheWrite,
                                   TokenCost(getPricing(model), inputTok, outputTok,
                                             cacheWrite, cacheRead))))

\* one iteration of parseClaudeCodeFormat's loop over the lines
ClaudeCodeLine(entry, dayData, fallbackDate) ==
    IF entry = BadJson THEN Returned(dayData)
    ELSE IF GetThrows(entry) THEN Threw
    ELSE
    LET msg == Get(entry, "message")
        usage == JsOr(JsAnd(msg, Get(msg, "usage")), Get(entry, "usage"))
        inputTok == JsOr(Get(usage, "input_tokens"), Num(0)).v
        outputTok == JsOr(Get(usage, "output_tokens"), Num(0)).v
        cacheWrite == JsOr(Get(usage, "cache_creation_input_tokens"), Num(0)).v
        cacheRead == JsOr(Get(usage, "cache_read_input_tokens"), Num(0)).v
        tsMs == JsOr(parseTimestamp(Get(entry, "timestamp")),
                     parseTimestamp(JsAnd(msg, Get(msg, "timestamp"))))
        model == JsOr(JsOr(JsAnd(msg, Get(msg, "model")), Get(entry, "model")), Str(""))
    IN IF ~Truthy(usage) THEN Returned(dayData)
       ELSE IF inputTok = 0 /\ outputTok = 0 /\ cacheRead = 0 /\ cacheWrite = 0
       THEN Returned(dayData)
       ELSE Once(Stamp(tsMs, fallbackDate), LAMBDA at :
            IF ~Truthy(at.date) THEN Returned(dayData)
            ELSE IF ModelThrows(model) THEN Threw
            ELSE Returned(AddEvent(dayData, at.date.v, at.time, ClaudePrefixed(model),
                                   inputTok, outputTok, cacheRead, cacheWrite,
                                   TokenCost(getPricing(model), inputTok, outputTok,
                                             cacheWrite, cacheRead))))

\* `created` below this many milliseconds is taken for epoch seconds; in the
\* model's unit of 1000 ms
AiderSecondsBelow == 2000000

\* one iteration of parseAiderFormat's loop over the lines
AiderLine(entry, dayData, fallbackDate) ==
    IF entry = BadJson THEN Returned(dayData)
    ELSE IF GetThrows(entry) THEN Threw
    ELSE
    LET response == Get(entry, "response")
        usage == JsOr(Get(entry, "usage"),
                      IF GetThrows(response) THEN Undef ELSE Get(response, "usage"))
        inputTok == JsOr(JsOr(Get(usage, "prompt_tokens"), Get(usage, "input_tokens")), Num(0)).v
        outputTok == JsOr(JsOr(Get(usage, "completion_tokens"), Get(usage, "output_tokens")), Num(0)).v
        cacheRead == JsOr(Get(usage, "cache_read_input_tokens"), Num(0)).v
        cacheWrite == JsOr(Get(usage, "cache_creation_input_tokens"), Num(0)).v
        created == Get(entry, "created")
        ts0 == JsOr(parseTimestamp(Get(entry, "timestamp")), parseTimestamp(created))
        tsMs == IF Truthy(created) /\ TypeOf(created) = "number" /\ created.v < AiderSecondsBelow
                THEN Num(created.v * 1000)
                ELSE ts0
        model == JsOr(Get(entry, "model"), Str(""))
    IN IF ~Truthy(usage) THEN Returned(dayData)
       ELSE IF inputTok = 0 /\ outputTok = 0 THEN Returned(dayData)
       ELSE Once(Stamp(tsMs, fallbackDate), LAMBDA at :
            IF ~Truthy(at.date) THEN Returned(dayData)
            ELSE IF ModelThrows(model) THEN Threw
            ELSE Returned(AddEvent(dayData, at.date.v, at.time, ClaudeIncluded(model),
                                   inputTok, outputTok, cacheRead, cacheWrite,
                                   TokenCost(getPricing(model), inputTok, outputTok,
                                             cacheWrite, cacheRead))))

\* the loop over the lines with `break` for `continue` in the catch of
\* JSON.parse: a malformed line ends the loop
RECURSIVE ParseLinesStopAtBad(_, _, _, _)
ParseLinesStopAtBad(variant, lines, dayData, fallbackDate) ==
    IF lines = <<>> \/ Head(lines) = BadJson THEN Returned(dayData)
    ELSE Once(CASE variant = "OpenClaw" -> OpenClawLine(Head(lines), dayData, fallbackDate)
                [] variant = "ClaudeCode" -> ClaudeCodeLine(Head(lines), dayData, fallbackDate)
                [] variant = "Aider" -> AiderLine(Head(lines), dayData, fallbackDate),
              LAMBDA r : IF r.threw THEN Threw
                         ELSE ParseLinesStopAtBad(variant, Tail(lines), r.dayData, fallbackDate))

\* the loop `for (const line of lines)` of a line-delimited parser
RECURSIVE ParseLines(_, _, _, _)
ParseLines(variant, lines, dayData, fallbackDate) ==
    IF lines = <<>> THEN Returned(dayData)
    ELSE Once(CASE variant = "OpenClaw" -> OpenClawLine(Head(lines), dayData, fallbackDate)
                [] variant = "ClaudeCode" -> ClaudeCodeLine(Head(lines), dayData, fallbackDate)
                [] variant = "Aider" -> AiderLine(Head(lines), dayData, fallbackDate),
              LAMBDA r : IF r.threw THEN Threw
                         ELSE ParseLines(variant, Tail(lines), r.dayData, fallbackDate))

\* function parseOpenClawFormat(filePath)
parseOpenClawFormat(file) ==
    Once(FallbackDate(file), LAMBDA fallbackDate :
        ParseLines("OpenClaw", file.lines, <<>>, fallbackDate))

\* function parseClaudeCodeFormat(filePath)
parseClaudeCodeFormat(file) ==
    Once(FallbackDate(file), LAMBDA fallbackDate :
        ParseLines("ClaudeCode", file.lines, <<>>, fallbackDate))

\* function parseAiderFormat(filePath)
parseAiderFormat(file) ==
    Once(FallbackDate(file), LAMBDA fallbackDate :
        ParseLines("Aider", file.lines, <<>>, fallbackDate))

\* one iteration of parseContinueFormat's loop over the steps; an exception
\* ends the loop in the function's catch, which returns the buckets so far
ContinueStep(step, data, dayData, file) ==
    IF GetThrows(step) THEN [stop |-> TRUE, dayData |-> dayData]
    ELSE
    LET promptTokens == Get(step, "promptTokens")
        completionTokens == Get(step, "completionTokens")
        usage == IF Truthy(JsOr(Get(step, "usage"), promptTokens))
                 THEN Obj([input_tokens |-> JsOr(promptTokens, Num(0)),
                           output_tokens |-> JsOr(completionTokens, Num(0))])
                 ELSE Null
        inputTok == JsOr(JsOr(IF GetThrows(usage) THEN Undef ELSE Get(usage, "input_tokens"),
                              promptTokens), Num(0)).v
        outputTok == JsOr(JsOr(IF GetThrows(usage) THEN Undef ELSE Get(usage, "output_tokens"),
                               completionTokens), Num(0)).v
        tsMs == JsOr(parseTimestamp(Get(step, "timestamp")),
                     parseTimestamp(Get(data, "dateCreated")))
        model == JsOr(JsOr(Get(step, "model"), Get(data, "model")), Str(""))
    IN IF ~Truthy(usage) /\ ~Truthy(Get(step, "tokens")) THEN [stop |-> FALSE, dayData |-> dayData]
       ELSE IF inputTok = 0 /\ outputTok = 0 THEN [stop |-> FALSE, dayData |-> dayData]
       ELSE Once(Stamp(tsMs, Null), LAMBDA at :
            LET date == IF Truthy(at.date) THEN at.date ELSE FallbackDate(file)
                dateKey == IF date = Null THEN "null" ELSE date.v
            IN IF ModelThrows(model)
               THEN [stop |-> TRUE,
                     dayData |-> AddEvent(dayData, dateKey, at.time, "", 0, 0, 0, 0, 0)]
               ELSE [stop |-> FALSE,
                     dayData |-> AddEvent(dayData, dateKey, at.time, ClaudeIncluded(model),
                                          inputTok, outputTok, 0, 0,
                                          TokenCost(getPricing(model), inputTok, outputTok,
                                                    0, 0))])

RECURSIVE ContinueSteps(_, _, _, _)
ContinueSteps(steps, data, dayData, file) ==
    IF steps = <<>> THEN dayData
    ELSE Once(ContinueStep(Head(steps), data, dayData, file),
              LAMBDA r : IF r.stop THEN r.dayData
                         ELSE ContinueSteps(Tail(steps), data, r.dayData, file))

\* function parseContinueFormat(filePath).  The file is one JSON document:
\* its only line; a file of several lines is not valid JSON.
parseContinueFormat(file) ==
    IF Len(file.lines) # 1 \/ file.lines[1] = BadJson \/ GetThrows(file.lines[1])
    THEN Returned(<<>>)
    ELSE LET data == file.lines[1]
             steps == JsOr(JsOr(Get(data, "steps"), Get(data, "history")), Arr(<<>>))
         IN IF steps.t # "array" THEN Returned(<<>>)
            ELSE Returned(ContinueSteps(steps.v, data, <<>>, file))

----------------------------------------------------------------------------
(* The source collectors.  A collector's result is given as the sequence   *)
(* of its sessions, each paired with the path of the file it came from.    *)

Parse(variant, file) ==
    CASE variant = "OpenClaw" -> parseOpenClawFormat(file)
      [] variant = "ClaudeCode" -> parseClaudeCodeFormat(file)
      [] variant = "Aider" -> parseAiderFormat(file)
      [] variant = "Continue" -> parseContinueFormat(file)

Tagged(path, sessions) ==
    Once(sessions, LAMBDA ss : [i \in 1..Len(ss) |-> [path |-> path, session |-> ss[i]]])

\* try { const dayData = parse(filePath); pushSessions(sessions, dayData, source, fileName) }
\* catch (e) { console.error(...) } : the sessions one file adds.  Reading a
\* directory throws.
FileSessions(d, filePath, variant, source, fileName) ==
    IF filePath \notin Present(d) THEN <<>>
    ELSE Once(Parse(variant, d[filePath]),
              LAMBDA r : IF r.threw THEN <<>>
                         ELSE pushSessions(<<>>, r.dayData, source, fileName))

\* the loop over the files with the try around it and not inside it: the first
\* file whose parser throws ends the loop
RECURSIVE ScanFilesAbortOnThrow(_, _, _, _)
ScanFilesAbortOnThrow(d, files, variant, source) ==
    IF files = <<>> THEN <<>>
    ELSE IF Head(files) \in Present(d) /\ Parse(variant, d[Head(files)]).threw THEN <<>>
    ELSE Tagged(Head(files),
                FileSessions(d, Head(files), variant, source, Basename(Head(files))))
         \o ScanFilesAbortOnThrow(d, Tail(files), variant, source)

\* for (const filePath of files) { ... path.basename(filePath) ... }
RECURSIVE ScanFiles(_, _, _, _)
ScanFiles(d, files, variant, source) ==
    IF files = <<>> THEN <<>>
    ELSE Tagged(Head(files),
                FileSessions(d, Head(files), variant, source, Basename(Head(files))))
         \o ScanFiles(d, Tail(files), variant, source)

\* for (const dir of searchDirs) { if (!fs.existsSync(dir)) continue;
\*   const files = findJsonl(dir); for (const filePath of files) ... }
RECURSIVE ScanDirs(_, _, _, _)
ScanDirs(d, searchDirs, variant, source) ==
    IF searchDirs = <<>> THEN <<>>
    ELSE (IF ExistsDir(d, Head(searchDirs))
          THEN Once(findJsonl(d, Head(searchDirs), DefaultMaxDepth),
                    LAMBDA files : ScanFiles(d, files, variant, source))
          ELSE <<>>)
         \o ScanDirs(d, Tail(searchDirs), variant, source)

\* the loop over `files` of collectOpenClaw: [seenFiles, emitted]
RECURSIVE OpenClawFiles(_, _, _, _, _, _)
OpenClawFiles(d, sessDir, files, source, seenFiles, emitted) ==
    IF files = <<>> THEN [seenFiles |-> seenFiles, emitted |-> emitted]
    ELSE LET file == Head(files)
         IN IF file \in seenFiles
            THEN OpenClawFiles(d, sessDir, Tail(files), source, seenFiles, emitted)
            ELSE Once(emitted \o Tagged(PathJoin(sessDir, file),
                        FileSessions(d, PathJoin(sessDir, file), "OpenClaw", source, file)),
                      LAMBDA pushed :
                          OpenClawFiles(d, sessDir, Tail(files), source,
                                        seenFiles \cup {file}, pushed))

RECURSIVE OpenClawDirs(_, _, _, _)
OpenClawDirs(d, dirNames, seenFiles, emitted) ==
    IF dirNames = <<>> THEN emitted
    ELSE LET dirName == Head(dirNames)
             sessDir == "." \o dirName \o "/agents/main/sessions"
             source == IF dirName = "openclaw" THEN "OpenClaw" ELSE "Clawdbot"
         IN IF ~ExistsDir(d, sessDir)
            THEN OpenClawDirs(d, Tail(dirNames), seenFiles, emitted)
            ELSE Once(SelectSeq(ReadDir(d, sessDir), LAMBDA f : EndsWith(f, ".jsonl")),
                      LAMBDA files :
                 Once(OpenClawFiles(d, sessDir, files, source, seenFiles, emitted),
                      LAMBDA r : OpenClawDirs(d, Tail(dirNames), r.seenFiles, r.emitted)))

\* function collectOpenClaw()
collectOpenClaw(d) == OpenClawDirs(d, <<"openclaw", "clawdbot">>, {}, <<>>)

\* function collectClaudeCode()
collectClaudeCode(d) == ScanDirs(d, <<".claude/projects">>, "ClaudeCode", "Claude Code")

\* function collectClaudeDesktop()
collectClaudeDesktop(d) ==
    ScanDirs(d, <<"Library/Application Support/Claude/local-agent-mode-sessions">>,
             "ClaudeCode", "Claude Desktop")

\* function collectCursor()
collectCursor(d) ==
    ScanDirs(d, <<".cursor/projects",
                  "Library/Application Support/Cursor/User/workspaceStorage">>,
             "ClaudeCode", "Cursor")

\* function collectWindsurf()
collectWindsurf(d) ==
    ScanDirs(d, <<".windsurf/projects", ".windsurf",
                  "Library/Application Support/Windsurf/User/workspaceStorage">>,
             "ClaudeCode", "Windsurf")

\* function collectCline()
collectCline(d) ==
    ScanDirs(d, <<".cline",
                  "Library/Application Support/Code/User/globalStorage/saoudrizwan.claude-dev",
                  "Library/Application Support/Code/User/globalStorage/cline.cline">>,
             "ClaudeCode", "Cline")

\* function collectRooCode()
collectRooCode(d) ==
    ScanDirs(d, <<".roo-code",
                  "Library/Application Support/Code/User/globalStorage/rooveterinaryinc.roo-cline">>,
             "ClaudeCode", "Roo Code")

\* the paths of the entries of dir whose name ends with one of the suffixes
ListBySuffix(d, dir, suffixes) ==
    Once(SelectSeq(ReadDir(d, dir), LAMBDA f : \E x \in suffixes : EndsWith(f, x)),
         LAMBDA names : [i \in 1..Len(names) |-> PathJoin(dir, names[i])])

RECURSIVE AiderDirs(_, _)
AiderDirs(d, searchDirs) ==
    IF searchDirs = <<>> THEN <<>>
    ELSE (IF ExistsDir(d, Head(searchDirs))
          THEN Once(ListBySuffix(d, Head(searchDirs), {".jsonl", ".json"}),
                    LAMBDA files : ScanFiles(d, files, "Aider", "Aider"))
          ELSE <<>>)
         \o AiderDirs(d, Tail(searchDirs))

\* function collectAider()
collectAider(d) == AiderDirs(d, <<".aider", ".aider/logs">>)

\* function collectContinue()
collectContinue(d) ==
    IF ~ExistsDir(d, ".continue/sessions") THEN <<>>
    ELSE Once(ListBySuffix(d, ".continue/sessions", {".json"}),
              LAMBDA files : ScanFiles(d, files, "Continue", "Continue"))

\* const sources = [ { name, fn }, ... ]
sources ==
    <<"OpenClaw / Clawdbot", "Claude Code CLI", "Claude Desktop", "Cursor",
      "Windsurf", "Cline", "Roo Code", "Aider", "Continue.dev">>

\* sources[i].fn()
RunCollector(i, d) ==
    CASE i = 1 -> collectOpenClaw(d)
      [] i = 2 -> collectClaudeCode(d)
      [] i = 3 -> collectClaudeDesktop(d)
      [] i = 4 -> collectCursor(d)
      [] i = 5 -> collectWindsurf(d)
      [] i = 6 -> collectCline(d)
      [] i = 7 -> collectRooCode(d)
      [] i = 8 -> collectAider(d)
      [] i = 9 -> collectContinue(d)

SessionsOf(emitted) == [i \in 1..Len(emitted) |-> emitted[i].session]
PathsOf(emitted) == [i \in 1..Len(emitted) |-> emitted[i].path]

----------------------------------------------------------------------------
(* The session cache *)

\* a file of the data directory
Absent == [kind |-> "absent"]
Unreadable == [kind |-> "unreadable"]
\* a text file, given by the value JSON.parse returns for it (or BadJson)
Text(json) == [kind |-> "text", json |-> json]
\* the text a write has put only the first entries of an array into
Partial(entries) == [kind |-> "text", json |-> BadJson, prefix |-> entries]

\* what JSON.stringify keeps of a value: properties that are undefined are left out
Jsonify(x) ==
    IF x.t = "object" /\ \E f \in DOMAIN x.v : x.v[f] = Undef
    THEN Obj([f \in {g \in DOMAIN x.v : x.v[g] # Undef} |-> x.v[f]])
    ELSE x

\* JSON.parse(JSON.stringify(sessions))
JSONstringify(sessions) == Arr([i \in 1..Len(sessions) |-> Jsonify(sessions[i])])

\* the filter of loadCache
ValidEntry(s) ==
    /\ s # BadJson
    /\ Truthy(s)
    /\ TypeOf(Get(s, "source")) = "string"
    /\ TypeOf(Get(s, "file")) = "string"
    /\ TypeOf(Get(s, "date")) = "string"
    /\ TypeOf(Get(s, "cost")) = "number"

\* loadCache taking a root that is no array for a list of one entry
loadCacheWrapsRoot(cf) ==
    IF cf.kind = "absent" THEN [sessions |-> <<>>, warned |-> FALSE]
    ELSE IF cf.kind = "unreadable" \/ cf.json = BadJson
    THEN [sessions |-> <<>>, warned |-> TRUE]
    ELSE IF cf.json.t # "array" THEN [sessions |-> <<cf.json>>, warned |-> TRUE]
    ELSE LET valid == SelectSeq(cf.json.v, ValidEntry)
         IN [sessions |-> valid, warned |-> Len(valid) < Len(cf.json.v)]

\* loadCache discarding the whole cache when one entry is malformed
loadCacheAllOrNothing(cf) ==
    IF cf.kind = "absent" THEN [sessions |-> <<>>, warned |-> FALSE]
    ELSE IF cf.kind = "unreadable" \/ cf.json = BadJson
    THEN [sessions |-> <<>>, warned |-> TRUE]
    ELSE IF cf.json.t # "array" THEN [sessions |-> <<>>, warned |-> TRUE]
    ELSE IF \A i \in 1..Len(cf.json.v) : ValidEntry(cf.json.v[i])
    THEN [sessions |-> cf.json.v, warned |-> FALSE]
    ELSE [sessions |-> <<>>, warned |-> TRUE]

\* function loadCache(): [sessions, warned]
loadCache(cf) ==
    IF cf.kind = "absent" THEN [sessions |-> <<>>, warned |-> FALSE]
    ELSE IF cf.kind = "unreadable" \/ cf.json = BadJson
    THEN [sessions |-> <<>>, warned |-> TRUE]
    ELSE IF cf.json.t # "array" THEN [sessions |-> <<>>, warned |-> TRUE]
    ELSE LET valid == SelectSeq(cf.json.v, ValidEntry)
         IN [sessions |-> valid, warned |-> Len(valid) < Len(cf.json.v)]

\* `${s.source}|${s.file}|${s.date}`
Key(s) == Get(s, "source").v \o "|" \o Get(s, "file").v \o "|" \o Get(s, "date").v

\* function mergeSessions(freshSessions, cachedSessions)
\* mergeSessions without the freshKeys test: every cached session is kept
mergeSessionsKeepAll(fresh, cached) == fresh \o cached

\* mergeSessions with the roles exchanged: a cached session wins over a fresh
\* session of its key
mergeSessionsCachedWins(fresh, cached) ==
    LET cachedKeys == {Key(cached[i]) : i \in 1..Len(cached)}
    IN SelectSeq(fresh, LAMBDA s : Key(s) \notin cachedKeys) \o cached

mergeSessions(fresh, cached) ==
    LET freshKeys == {Key(fresh[i]) : i \in 1..Len(fresh)}
    IN fresh \o SelectSeq(cached, LAMBDA s : Key(s) \notin freshKeys)

\* the methods an empty object inherits from Object.prototype
ObjectPrototypeMethods ==
    {"constructor", "hasOwnProperty", "isPrototypeOf", "propertyIsEnumerable",
     "toLocaleString", "toString", "valueOf"}

\* the summary code throws: some session's source names such a method
SummaryThrows(sessions) ==
    \E i \in 1..Len(sessions) : Get(sessions[i], "source").v \in ObjectPrototypeMethods

\* the filter of openclawSessions without the second source
IsOpenClawOnly(s) == Get(s, "source") = Str("OpenClaw")

\* s.source === 'OpenClaw' || s.source === 'Clawdbot'
IsOpenClaw(s) == Get(s, "source") \in {Str("OpenClaw"), Str("Clawdbot")}

\* the dashboard's loadData: const allSessions = [...openclawSessions, ...claudeSessions]
\* for the lists data.js assigns to window.__OPENCLAW_SESSIONS__ and
\* window.__CLAUDE_SESSIONS__
loadDataSessions(js) == Get(js, "openclaw").v \o Get(js, "claude").v

\* allSessions.reduce((s, x) => s + x.cost, 0), in units of 1e-4 USD
RECURSIVE CostSum(_)
CostSum(sessions) ==
    IF sessions = <<>> THEN 0
    ELSE Get(Head(sessions), "cost").v + CostSum(Tail(sessions))

\* parseFloat(x.toFixed(2)) of a sum given in 1e-4 USD, in units of 1e-2 USD.
\* A sum that lies halfway between two cents is rounded up here; toFixed
\* decides it by the binary value of the sum.
Round2(cost) == (cost + 50) \div 100

\* the keys of sourceTotals and sourceCounts
SourcesOf(sessions) == {Get(sessions[i], "source").v : i \in 1..Len(sessions)}

\* the sessions of one source
OfSource(sessions, source) == SelectSeq(sessions, LAMBDA s : Get(s, "source").v = source)

\* sourceTotals, after the loop that rounds every entry
sourceTotals(sessions) ==
    [k \in SourcesOf(sessions) |-> Round2(CostSum(OfSource(sessions, k)))]

\* sourceCounts with 1 for every source that occurs
sourceCountsPresence(sessions) == [k \in SourcesOf(sessions) |-> 1]

\* sourceCounts
sourceCounts(sessions) ==
    [k \in SourcesOf(sessions) |-> Len(OfSource(sessions, k))]

\* const summary = { ... }, for the sessions after the merge and the reading
\* `now` of the clock.  { ...obj, key: x } has the keys of obj and key, with x
\* under key.  generated_at, a second reading of the clock, is left out.
Summary(sessions, now) ==
    Once(toLocalDate(Num(now)).v, LAMBDA today :
        [today |-> today,
         current_month |-> SubSeq(today, 1, 7),
         totals |-> ("grand_total" :> Round2(CostSum(sessions))) @@ sourceTotals(sessions),
         today_cost |-> Round2(CostSum(SelectSeq(sessions,
                            LAMBDA s : Get(s, "date").v = today))),
         month_cost |-> Round2(CostSum(SelectSeq(sessions,
                            LAMBDA s : StartsWith(Get(s, "date").v, SubSeq(today, 1, 7))))),
         session_counts |-> ("total" :> Len(sessions)) @@ sourceCounts(sessions)])

----------------------------------------------------------------------------
(* Bounds and the inputs the model draws from *)

MaxRuns == 2      \* runs of the collector
MaxEdits == 3     \* changes to the log files
MaxList == 2      \* length of a session list given to the cache steps

\* the time of the first run, in epoch seconds
FirstRunAt == DateParse("2025-01-10T10:00:00Z")

\* the collector is run once a day; the tools write their logs on the day of
\* the next run
Now(r) == FirstRunAt + r * SecondsPerDay

\* the log files that can exist
LogPaths ==
    {".openclaw/agents/main/sessions/o.jsonl",
     ".clawdbot/agents/main/sessions/o.jsonl",
     ".claude/projects/a/s.jsonl",
     ".claude/projects/b/s.jsonl",
     ".windsurf/projects/w.jsonl"}

\* the parser and the source label of the collector that owns a path
VariantOf(p) ==
    IF StartsWith(p, ".openclaw/") \/ StartsWith(p, ".clawdbot/") THEN "OpenClaw"
    ELSE IF StartsWith(p, ".aider/") THEN "Aider"
    ELSE IF StartsWith(p, ".continue/") THEN "Continue"
    ELSE "ClaudeCode"

LabelOf(p) ==
    IF StartsWith(p, ".openclaw/") THEN "OpenClaw"
    ELSE IF StartsWith(p, ".clawdbot/") THEN "Clawdbot"
    ELSE IF StartsWith(p, ".claude/") THEN "Claude Code"
    ELSE IF StartsWith(p, ".aider/") THEN "Aider"
    ELSE IF StartsWith(p, ".continue/") THEN "Continue"
    ELSE "Windsurf"

\* the index in `sources` of the collector that owns a path
OwnerOf(p) ==
    IF StartsWith(p, ".openclaw/") \/ StartsWith(p, ".clawdbot/") THEN 1
    ELSE IF StartsWith(p, ".claude/") THEN 2
    ELSE IF StartsWith(p, ".aider/") THEN 8
    ELSE IF StartsWith(p, ".continue/") THEN 9
    ELSE 5

\* log lines: a usage event with a timestamp, and one without
CcStamped ==
    Obj([message |-> Obj([usage |-> Obj([input_tokens |-> Num(1000), output_tokens |-> Num(500)]),
                          model |-> Str("claude-sonnet-4-5")]),
         timestamp |-> Str("2025-01-10T10:00:00Z")])
CcUnstamped == Obj([usage |-> Obj([input_tokens |-> Num(2000)])])
OcStamped ==
    Obj([message |-> Obj([usage |-> Obj([input |-> Num(1000), output |-> Num(500),
                                         cost |-> Obj([total |-> Num(250000)])]),
                          model |-> Str("claude-opus-4-5")]),
         timestamp |-> Str("2025-01-10T10:00:00Z")])

LinesFor(p) ==
    CASE VariantOf(p) = "OpenClaw" -> {OcStamped}
      [] VariantOf(p) = "ClaudeCode" -> {CcStamped, CcUnstamped}

\* a session as pushSessions builds it
Sess(source, file, date, cost) ==
    Obj([date |-> Str(date), time |-> Str("11:00"), source |-> Str(source),
         file |-> Str(file), cost |-> Num(cost), input_tokens |-> Num(1000),
         output_tokens |-> Num(0), cache_read |-> Num(0), cache_write |-> Num(0),
         model |-> Str("claude-sonnet-4-5")])

\* sessions a collector can return
FreshPool ==
    {Sess("Cursor", "a.jsonl", "2025-01-10", 30),
     Sess("OpenClaw", "b.jsonl", "2025-01-10", 30),
     Sess("Cursor", "x|y.jsonl", "2025-01-10", 30)}

\* entries a cache file can hold: sessions, and values that are no sessions
CachePool ==
    {Sess("Cursor", "a.jsonl", "2025-01-10", 10),
     Sess("Cursor", "a.jsonl", "2025-01-09", 10),
     Obj([source |-> Str("Cursor|x"), file |-> Str("y.jsonl"),
          date |-> Str("2025-01-10"), cost |-> Num(10)]),
     Sess("toString", "a.jsonl", "2025-01-10", 10),
     Sess("total", "a.jsonl", "2025-01-10", 10),
     Null,
     Num(7),
     Obj([file |-> Str("a.jsonl"), date |-> Str("2025-01-10"), cost |-> Num(10)]),
     Obj([source |-> Str("Cursor"), file |-> Str("a.jsonl"),
          date |-> Str("2025-01-10"), cost |-> Str("0.001")])}

\* the sequences over S of length at most n
RECURSIVE SeqsUpTo(_, _)
SeqsUpTo(S, n) ==
    IF n = 0 THEN {<<>>}
    ELSE LET shorter == SeqsUpTo(S, n - 1)
         IN shorter \cup {Append(q, x) : q \in shorter, x \in S}

\* the contents CACHE_FILE can have when a run reaches loadCache
CacheFiles ==
    {Absent, Unreadable, Text(BadJson), Text(Obj([not |-> Str("an array")]))}
        \cup {Text(Arr(q)) : q \in SeqsUpTo(CachePool, MaxList)}

----------------------------------------------------------------------------
(* The script, one action per step of it *)

NoLedger == [kind |-> "none"]

\* no function is called on its own
NoCall == [fn |-> "none"]

Range(seq) == {seq[i] : i \in 1..Len(seq)}

\* the entries of the persisted ledger
Entries(cf) ==
    IF cf.kind = "text" /\ cf.json # BadJson /\ cf.json.t = "array" THEN cf.json.v ELSE <<>>

\* the sessions a scan of the file at p gives
FreshScan(d, p) == FileSessions(d, p, VariantOf(p), LabelOf(p), Basename(p))

Stopped == pc \in {"idle", "done", "stopped"}

Init ==
    /\ disk = [p \in LogPaths |-> NoFile]
    /\ cacheFile \in {Absent, Text(Arr(<<>>))}
    /\ tmpFile = Absent
    /\ dataJs = Absent
    /\ pc = "idle"
    /\ srcIdx = 1
    /\ allSessions = <<>>
    /\ cachedSessions = <<>>
    /\ written = 0
    /\ oldCache = NoLedger
    /\ scanned = <<>>
    /\ calls = <<>>
    /\ loadArg = <<>>
    /\ mergeArg = <<>>
    /\ saveArg = <<>>
    /\ runs = 0
    /\ edits = 0
    /\ prevLedger = NoLedger
    /\ changed = {}
    /\ appended = {}
    /\ orphans = {}
    /\ fnArg = NoCall
    /\ fnRet = <<>>
    /\ PageLoaded

\* node collect-usage.js
Start ==
    /\ Stopped
    /\ runs < MaxRuns
    /\ pc' = "collect"
    /\ srcIdx' = 1
    /\ allSessions' = <<>>
    /\ cachedSessions' = <<>>
    /\ written' = 0
    /\ scanned' = <<>>
    /\ calls' = <<>>
    /\ loadArg' = <<>>
    /\ mergeArg' = <<>>
    /\ saveArg' = <<>>
    /\ runs' = runs + 1
    /\ UNCHANGED <<fnVars, uiVars>>
    /\ UNCHANGED <<disk, cacheFile, tmpFile, dataJs, oldCache, edits, prevLedger,
                   changed, appended, orphans>>

\* one iteration of `for (const { name, fn } of sources)`
Collect ==
    /\ pc = "collect"
    /\ \E emitted \in {RunCollector(srcIdx, disk)} :
          /\ allSessions' = allSessions \o SessionsOf(emitted)
          /\ scanned' = scanned \o PathsOf(emitted)
    /\ calls' = Append(calls, sources[srcIdx])
    /\ srcIdx' = srcIdx + 1
    /\ pc' = IF srcIdx = Len(sources) THEN "loadCache" ELSE "collect"
    /\ UNCHANGED <<fnVars, uiVars>>
    /\ UNCHANGED <<disk, cacheFile, tmpFile, dataJs, cachedSessions, written, oldCache,
                   loadArg, mergeArg, saveArg, runs, edits, prevLedger, changed, appended, orphans>>

\* const cachedSessions = loadCache()
LoadCache ==
    /\ pc = "loadCache"
    /\ loadArg' = Append(loadArg, cacheFile)
    /\ LET r == loadCache(cacheFile)
       IN /\ cachedSessions' = r.sessions
          /\ calls' = calls \o (IF r.warned THEN <<"warn:loadCache">> ELSE <<>>)
                            \o <<"loadCache">>
    /\ pc' = "merge"
    /\ UNCHANGED <<fnVars, uiVars>>
    /\ UNCHANGED <<disk, cacheFile, tmpFile, dataJs, srcIdx, allSessions, written,
                   oldCache, scanned, mergeArg, saveArg, runs, edits, prevLedger,
                   changed, appended, orphans>>

\* allSessions = mergeSessions(allSessions, cachedSessions)
Merge ==
    /\ pc = "merge"
    /\ \E merged \in {mergeSessions(allSessions, cachedSessions)} :
          /\ allSessions' = merged
          /\ mergeArg' = Append(mergeArg, [fresh |-> allSessions, cached |-> cachedSessions,
                                           merged |-> merged])
    /\ calls' = Append(calls, "mergeSessions")
    /\ pc' = "summary"
    /\ UNCHANGED <<fnVars, uiVars>>
    /\ UNCHANGED <<disk, cacheFile, tmpFile, dataJs, srcIdx, cachedSessions, written,
                   oldCache, scanned, loadArg, saveArg, runs, edits, prevLedger, changed,
                   appended, orphans>>

\* the summary: sourceTotals[s.source] = (sourceTotals[s.source] || 0) + s.cost,
\* then sourceTotals[key].toFixed(2) for every key.  For a source that names a
\* method of Object.prototype the sum is a string, toFixed is undefined and the
\* TypeError ends the script.
Summarize ==
    /\ pc = "summary"
    /\ IF SummaryThrows(allSessions)
       THEN pc' = "stopped" /\ prevLedger' = NoLedger
       ELSE pc' = "save" /\ prevLedger' = prevLedger
    /\ UNCHANGED <<fnVars, uiVars>>
    /\ UNCHANGED <<disk, cacheFile, tmpFile, dataJs, srcIdx, allSessions,
                   cachedSessions, written, oldCache, scanned, calls, loadArg,
                   mergeArg, saveArg, runs, edits, changed, appended, orphans>>

\* saveCache entered before the merge, with the fresh sessions alone
SaveOpenUnmerged ==
    /\ pc = "merge"
    /\ saveArg' = Append(saveArg, allSessions)
    /\ oldCache' = cacheFile
    /\ tmpFile' = Partial(<<>>)
    /\ written' = 0
    /\ pc' = "write"
    /\ UNCHANGED <<fnVars, uiVars>>
    /\ UNCHANGED <<disk, cacheFile, dataJs, srcIdx, allSessions, cachedSessions,
                   scanned, calls, loadArg, mergeArg, runs, edits, prevLedger, changed,
                   appended, orphans>>

\* saveCache(allSessions): fs.writeFileSync(tmpFile, ...) opens and truncates
SaveOpen ==
    /\ pc = "save"
    /\ saveArg' = Append(saveArg, allSessions)
    /\ oldCache' = cacheFile
    /\ tmpFile' = Partial(<<>>)
    /\ written' = 0
    /\ pc' = "write"
    /\ UNCHANGED <<fnVars, uiVars>>
    /\ UNCHANGED <<disk, cacheFile, dataJs, srcIdx, allSessions, cachedSessions,
                   scanned, calls, loadArg, mergeArg, runs, edits, prevLedger, changed,
                   appended, orphans>>

\* the write going to CACHE_FILE itself and not to the temporary file
SaveWriteInPlace ==
    /\ pc = "write"
    /\ LET sessions == saveArg[Len(saveArg)]
       IN IF written < Len(sessions)
          THEN /\ cacheFile' = Partial(SubSeq(JSONstringify(sessions).v, 1, written + 1))
               /\ written' = written + 1
               /\ pc' = "write"
          ELSE /\ cacheFile' = Text(JSONstringify(sessions))
               /\ written' = written
               /\ pc' = "rename"
    /\ UNCHANGED <<fnVars, uiVars>>
    /\ UNCHANGED <<disk, tmpFile, dataJs, srcIdx, allSessions, cachedSessions,
                   oldCache, scanned, calls, loadArg, mergeArg, saveArg, runs, edits,
                   prevLedger, changed, appended, orphans>>

\* fs.writeFileSync writes the text, here one entry at a time and then its end
SaveWrite ==
    /\ pc = "write"
    /\ LET sessions == saveArg[Len(saveArg)]
       IN IF written < Len(sessions)
          THEN /\ tmpFile' = Partial(SubSeq(JSONstringify(sessions).v, 1, written + 1))
               /\ written' = written + 1
               /\ pc' = "write"
          ELSE /\ tmpFile' = Text(JSONstringify(sessions))
               /\ written' = written
               /\ pc' = "rename"
    /\ UNCHANGED <<fnVars, uiVars>>
    /\ UNCHANGED <<disk, cacheFile, dataJs, srcIdx, allSessions, cachedSessions,
                   oldCache, scanned, calls, loadArg, mergeArg, saveArg, runs, edits,
                   prevLedger, changed, appended, orphans>>

\* fs.renameSync(tmpFile, CACHE_FILE)
SaveRename ==
    /\ pc = "rename"
    /\ cacheFile' = tmpFile
    /\ tmpFile' = Absent
    /\ calls' = Append(calls, "saveCache")
    /\ pc' = "data"
    /\ UNCHANGED <<fnVars, uiVars>>
    /\ UNCHANGED <<disk, dataJs, srcIdx, allSessions, cachedSessions, written,
                   oldCache, scanned, loadArg, mergeArg, saveArg, runs, edits, prevLedger,
                   changed, appended, orphans>>

\* writeFileSync or renameSync throws: catch (e) { console.warn(...) }
SaveFail ==
    /\ pc \in {"write", "rename"}
    /\ calls' = calls \o <<"warn:saveCache", "saveCache">>
    /\ pc' = "data"
    /\ UNCHANGED <<fnVars, uiVars>>
    /\ UNCHANGED <<disk, cacheFile, tmpFile, dataJs, srcIdx, allSessions,
                   cachedSessions, written, oldCache, scanned, loadArg, mergeArg, saveArg,
                   runs, edits, prevLedger, changed, appended, orphans>>

\* fs.writeFileSync(path.join(OUTPUT_DIR, 'data.js'), dataJs), and the script ends.
\* The summary was built at pc = "summary" from allSessions, which no step has
\* changed since.
WriteData ==
    /\ pc = "data"
    /\ dataJs' = Text(Obj([summary |-> Summary(allSessions, Now(runs - 1)),
                           openclaw |-> JSONstringify(SelectSeq(allSessions, IsOpenClaw)),
                           claude |-> JSONstringify(SelectSeq(allSessions,
                                                              LAMBDA s : ~IsOpenClaw(s)))]))
    /\ calls' = Append(calls, "data.js")
    /\ pc' = "done"
    /\ prevLedger' = IF "warn:saveCache" \in Range(calls) THEN NoLedger ELSE cacheFile
    /\ changed' = {}
    /\ appended' = {}
    /\ UNCHANGED <<fnVars, uiVars>>
    /\ UNCHANGED <<disk, cacheFile, tmpFile, srcIdx, allSessions, cachedSessions,
                   written, oldCache, scanned, loadArg, mergeArg, saveArg, runs, edits, orphans>>

\* the process is stopped (killed) at some point of the script
Crash ==
    /\ ~Stopped
    /\ pc' = "stopped"
    /\ prevLedger' = NoLedger
    /\ UNCHANGED <<fnVars, uiVars>>
    /\ UNCHANGED <<disk, cacheFile, tmpFile, dataJs, srcIdx, allSessions,
                   cachedSessions, written, oldCache, scanned, calls, loadArg, mergeArg,
                   saveArg, runs, edits, changed, appended, orphans>>

----------------------------------------------------------------------------
(* The tools write their logs between runs of the collector *)

\* a tool starts a new log file
CreateFile(p, line) ==
    /\ Stopped
    /\ edits < MaxEdits
    /\ ~disk[p].exists
    /\ disk' = [disk EXCEPT ![p] = File(<<line>>, Now(runs))]
    /\ edits' = edits + 1
    /\ changed' = changed \cup {p}
    /\ orphans' = {o \in orphans : o.path # p}
    /\ UNCHANGED <<fnVars, uiVars>>
    /\ UNCHANGED <<cacheFile, tmpFile, dataJs, pc, srcIdx, allSessions, cachedSessions,
                   written, oldCache, scanned, calls, loadArg, mergeArg, saveArg, runs,
                   prevLedger, appended>>

\* a tool appends a line to its log file
AppendLine(p, line) ==
    /\ Stopped
    /\ edits < MaxEdits
    /\ disk[p].exists
    /\ disk' = [disk EXCEPT ![p] = File(Append(disk[p].lines, line), Now(runs))]
    /\ edits' = edits + 1
    /\ changed' = changed \cup {p}
    /\ appended' = IF /\ prevLedger # NoLedger
                      /\ p \notin changed
                      /\ \E s \in Range(FreshScan(disk, p)) : s \in Range(Entries(cacheFile))
                   THEN appended \cup {p}
                   ELSE appended
    /\ UNCHANGED <<fnVars, uiVars>>
    /\ UNCHANGED <<cacheFile, tmpFile, dataJs, pc, srcIdx, allSessions, cachedSessions,
                   written, oldCache, scanned, calls, loadArg, mergeArg, saveArg, runs,
                   prevLedger, orphans>>

\* a log file is deleted
DeleteFile(p) ==
    /\ Stopped
    /\ edits < MaxEdits
    /\ disk[p].exists
    /\ disk' = [disk EXCEPT ![p] = NoFile]
    /\ edits' = edits + 1
    /\ changed' = changed \cup {p}
    /\ appended' = appended \ {p}
    /\ orphans' = IF prevLedger # NoLedger /\ p \notin changed
                  THEN orphans \cup
                       {[path |-> p, session |-> s] :
                           s \in Range(FreshScan(disk, p)) \cap Range(Entries(cacheFile))}
                  ELSE orphans
    /\ UNCHANGED <<fnVars, uiVars>>
    /\ UNCHANGED <<cacheFile, tmpFile, dataJs, pc, srcIdx, allSessions, cachedSessions,
                   written, oldCache, scanned, calls, loadArg, mergeArg, saveArg, runs, prevLedger>>

----------------------------------------------------------------------------
(* Spec: runs of the collector, with the tools writing logs in between; the *)
(* file system calls of saveCache succeed and every run reaches its end.    *)

Next ==
    \/ Start
    \/ Collect
    \/ LoadCache
    \/ Merge
    \/ Summarize
    \/ SaveOpen
    \/ SaveWrite
    \/ SaveRename
    \/ WriteData
    \/ \E p \in LogPaths : \E line \in LinesFor(p) : CreateFile(p, line)
    \/ \E p \in LogPaths : \E line \in LinesFor(p) : AppendLine(p, line)
    \/ \E p \in LogPaths : DeleteFile(p)

Spec == Init /\ [][Next]_vars

(* SpecCache: the cache steps of one run (from loadCache to the end of the  *)
(* script) for every list of fresh sessions and every content of the cache *)
(* file, with saveCache's calls failing and the process stopping anywhere. *)

InitCache ==
    /\ disk = [p \in LogPaths |-> NoFile]
    /\ cacheFile \in CacheFiles
    /\ tmpFile = Absent
    /\ dataJs = Absent
    /\ pc = "loadCache"
    /\ srcIdx = Len(sources) + 1
    /\ allSessions \in SeqsUpTo(FreshPool, MaxList)
    /\ cachedSessions = <<>>
    /\ written = 0
    /\ oldCache = NoLedger
    /\ scanned = [i \in 1..Len(allSessions) |-> ""]
    /\ calls = sources
    /\ loadArg = <<>>
    /\ mergeArg = <<>>
    /\ saveArg = <<>>
    /\ runs = 1
    /\ edits = 0
    /\ prevLedger = NoLedger
    /\ changed = {}
    /\ appended = {}
    /\ orphans = {}
    /\ fnArg = NoCall
    /\ fnRet = <<>>
    /\ PageLoaded

NextCache ==
    \/ LoadCache
    \/ Merge
    \/ Summarize
    \/ SaveOpen
    \/ SaveWrite
    \/ SaveRename
    \/ SaveFail
    \/ WriteData
    \/ Crash

SpecCache == InitCache /\ [][NextCache]_vars

(* SpecCalls: one call of a parser (followed by pushSessions on the buckets  *)
(* it returned), of getPricing or of parseTimestamp, for every input of a   *)
(* bounded set.                                                             *)

MaxLines == 2     \* lines of a log file given to a parser

\* lines of a log in Claude Code format
CcSecond ==
    Obj([message |-> Obj([usage |-> Obj([input_tokens |-> Num(2000), output_tokens |-> Num(0)]),
                          model |-> Str("claude-sonnet-4-5")]),
         timestamp |-> Str("2025-01-10T11:00:00Z")])
CcZero ==
    Obj([usage |-> Obj([input_tokens |-> Num(0), output_tokens |-> Num(0)]),
         model |-> Str("claude-opus-4-1"),
         timestamp |-> Str("2025-01-10T10:30:00Z")])
CcTiny ==
    Obj([usage |-> Obj([input_tokens |-> Num(10)]),
         model |-> Str("claude-haiku-4-5"),
         timestamp |-> Str("2025-01-10T09:00:00Z")])
CcLate ==
    Obj([usage |-> Obj([input_tokens |-> Num(1000),
                        cache_creation_input_tokens |-> Num(160),
                        cache_read_input_tokens |-> Num(1000)]),
         model |-> Str("claude-opus-4-5"),
         timestamp |-> Str("2025-01-10T23:30:00Z")])
\* "timestamp":1700000000
CcNumStamp ==
    Obj([usage |-> Obj([input_tokens |-> Num(1000)]), timestamp |-> Num(1700000)])

CcLines == {CcStamped, CcSecond, CcUnstamped, CcZero, CcTiny, CcLate, CcNumStamp, BadJson, Null}

\* lines of a log in OpenClaw format
OcZeroTotal ==
    Obj([usage |-> Obj([input |-> Num(1000), output |-> Num(500),
                        cost |-> Obj([total |-> Num(0)])]),
         timestamp |-> Str("2025-01-10T10:00:00Z")])
OcNoCost ==
    Obj([message |-> Obj([usage |-> Obj([input |-> Num(1000), output |-> Num(500),
                                         cacheRead |-> Num(1000), cacheWrite |-> Num(160)]),
                          model |-> Str("claude-opus-4-5"),
                          timestamp |-> Str("2025-01-10T11:00:00Z")])])
OcUnstamped == Obj([usage |-> Obj([input |-> Num(2000)])])
\* "cost":{"total":0.00005}
OcTinyTotal ==
    Obj([usage |-> Obj([input |-> Num(10), cost |-> Obj([total |-> Num(5000)])]),
         timestamp |-> Str("2025-01-09T10:00:00Z")])
\* "cost":{"total":0.0002}
OcSmallTotal ==
    Obj([usage |-> Obj([output |-> Num(10), cost |-> Obj([total |-> Num(20000)])]),
         timestamp |-> Str("2025-01-08T10:00:00Z")])
OcNumStamp ==
    Obj([usage |-> Obj([input |-> Num(1000)]), timestamp |-> Num(1700000)])

OcLines ==
    {OcStamped, OcZeroTotal, OcNoCost, OcUnstamped, OcTinyTotal, OcSmallTotal, OcNumStamp,
     BadJson, Null}

\* lines of a log in Aider (litellm) format
AiStamped ==
    Obj([usage |-> Obj([prompt_tokens |-> Num(1000), completion_tokens |-> Num(500)]),
         model |-> Str("anthropic/claude-sonnet-4-5"),
         timestamp |-> Str("2025-01-10T10:00:00Z")])
\* "created":1700000000
AiCreated ==
    Obj([usage |-> Obj([prompt_tokens |-> Num(1000)]), created |-> Num(1700000)])
AiNumStamp ==
    Obj([usage |-> Obj([prompt_tokens |-> Num(1000)]), timestamp |-> Num(1700000)])
AiUnstamped ==
    Obj([response |-> Obj([usage |-> Obj([input_tokens |-> Num(2000)])])])

AiLines == {AiStamped, AiCreated, AiNumStamp, AiUnstamped, BadJson, Null}

\* steps of a Continue session document
StStamped ==
    Obj([promptTokens |-> Num(1000), completionTokens |-> Num(500),
         model |-> Str("claude-sonnet-4-5"),
         timestamp |-> Str("2025-01-10T10:00:00Z")])
StUnstamped == Obj([promptTokens |-> Num(2000)])
StNumStamp == Obj([promptTokens |-> Num(1000), timestamp |-> Num(1700000)])

\* a step that gives its counts under `usage`
StUsage ==
    Obj([usage |-> Obj([input_tokens |-> Num(1000), output_tokens |-> Num(500)]),
         model |-> Str("claude-sonnet-4-5"),
         timestamp |-> Str("2025-01-10T10:00:00Z")])

StSteps == {StStamped, StUnstamped, StNumStamp, StUsage, Null}

\* Continue session documents, without and with a document-level timestamp
ContinueDocs ==
    {BadJson}
        \cup {Obj([steps |-> Arr(q)]) : q \in SeqsUpTo(StSteps, MaxLines)}
        \cup {Obj([history |-> Arr(q), dateCreated |-> Str("2025-01-09T10:00:00Z")]) :
                 q \in SeqsUpTo(StSteps, MaxLines)}

\* modification times of a log file: the epoch, and the time of the first run
Mtimes == {0, FirstRunAt}

LinesOf(variant) ==
    CASE variant = "OpenClaw" -> OcLines
      [] variant = "ClaudeCode" -> CcLines
      [] variant = "Aider" -> AiLines

\* the source label and the file name a collector hands to pushSessions
SourceOf(variant) ==
    CASE variant = "OpenClaw" -> "OpenClaw"
      [] variant = "ClaudeCode" -> "Claude Code"
      [] variant = "Aider" -> "Aider"
      [] variant = "Continue" -> "Continue"

MaxEvents == 3    \* events of one day in a log given to a parser

\* a line of an OpenClaw log: an event of 2025-01-10 that names a model
OcModelLine(model) ==
    Obj([message |-> Obj([usage |-> Obj([input |-> Num(1000), output |-> Num(500)]),
                          model |-> Str(model)]),
         timestamp |-> Str("2025-01-10T10:00:00Z")])

\* events of one day that name two Claude models and a model of another vendor
ModelLines ==
    {OcModelLine("claude-sonnet-4-5"), OcModelLine("claude-opus-4-5"), OcModelLine("gpt-4o")}

ParseCall(variant, file) ==
    [fn |-> "parse", variant |-> variant, file |-> file,
     source |-> SourceOf(variant), fileName |-> "s.jsonl"]

ParseCalls ==
    {ParseCall(variant, File(q, mtime)) :
        variant \in {"OpenClaw"}, q \in SeqsUpTo(OcLines, MaxLines), mtime \in Mtimes}
    \cup {ParseCall(variant, File(q, mtime)) :
        variant \in {"ClaudeCode"}, q \in SeqsUpTo(CcLines, MaxLines), mtime \in Mtimes}
    \cup {ParseCall(variant, File(q, mtime)) :
        variant \in {"Aider"}, q \in SeqsUpTo(AiLines, MaxLines), mtime \in Mtimes}
    \cup {ParseCall("Continue", File(<<doc>>, mtime)) : doc \in ContinueDocs, mtime \in Mtimes}
    \cup {ParseCall("OpenClaw", File(q, FirstRunAt)) : q \in SeqsUpTo(ModelLines, MaxEvents)}

\* model identifiers
Models ==
    {"", "gpt-4o", "gemini-2.5-pro", "o3",
     "claude-opus-4-6", "claude-opus-4.6", "claude-opus-4-5", "claude-opus-4.5",
     "claude-opus-4-1", "claude-opus-4.1", "claude-opus-4-0", "claude-3-opus",
     "claude-opus-7", "Claude-OPUS-4-6", "OPUS",
     "claude-sonnet-3-5", "claude-sonnet-3-7", "claude-sonnet-4-0", "claude-sonnet-4-5",
     "claude-sonnet-9", "Sonnet",
     "claude-haiku-4-5", "claude-haiku-4.5", "claude-haiku-4-0", "claude-haiku-3-0",
     "claude-haiku-3-5", "claude-3-5-haiku", "claude-haiku-9", "HAIKU-4-5",
     "sonnet-haiku-4-5", "opus-or-haiku-4-5"}

\* the README's table "Current Models": the versions of a row, written
\* major-minor, and the row's rates
ReadmePricing ==
    {[family |-> "opus", versions |-> {"4-5", "4-6"}, rate |-> Rate(500, 2500, 625, 50)],
     [family |-> "opus", versions |-> {"4-0", "4-1"}, rate |-> Rate(1500, 7500, 1875, 150)],
     [family |-> "sonnet", versions |-> {"3-5", "3-7", "4-0", "4-5"},
      rate |-> Rate(300, 1500, 375, 30)],
     [family |-> "haiku", versions |-> {"4-0", "4-5"}, rate |-> Rate(100, 500, 125, 10)],
     [family |-> "haiku", versions |-> {"3-0", "3-5"}, rate |-> Rate(25, 125, 30, 3)]}

\* values of a `model` field that are not strings: "model":4, "model":["claude-sonnet-4-5"]
NonStringModels == {Num(4), Arr(<<Str("claude-sonnet-4-5")>>)}

PricingCalls ==
    {[fn |-> "getPricing", model |-> m] :
        m \in {Str(x) : x \in Models} \cup {Null, Undef} \cup NonStringModels}

\* timestamp fields: absent, numbers (in units of 1000 ms), strings
Timestamps ==
    {Undef, Null, Num(0), Num(1), Num(1700000), Num(1999999), Num(2000000),
     Num(FirstRunAt), Str(""), Str("2025-01-10T10:00:00Z"), Str("2025-01-10"),
     Str("not a date"), Obj([seconds |-> Num(1700000)])}

TimestampCalls == {[fn |-> "parseTimestamp", ts |-> ts] : ts \in Timestamps}

\* dayData = parse(filePath)
CallParse ==
    /\ fnArg.fn = "parse"
    /\ fnRet = <<>>
    /\ \E r \in {Parse(fnArg.variant, fnArg.file)} : fnRet' = <<r>>
    /\ UNCHANGED <<fnArg, runVars, uiVars>>

\* pushSessions(sessions, dayData, source, fileName) on an empty `sessions`
CallPushSessions ==
    /\ fnArg.fn = "parse"
    /\ Len(fnRet) = 1
    /\ ~fnRet[1].threw
    /\ \E r \in {pushSessions(<<>>, fnRet[1].dayData, fnArg.source, fnArg.fileName)} :
          fnRet' = Append(fnRet, r)
    /\ UNCHANGED <<fnArg, runVars, uiVars>>

\* the result of a call that an exception has left
Thrown == [threw |-> TRUE]

\* getPricing(model)
CallGetPricing ==
    /\ fnArg.fn = "getPricing"
    /\ fnRet = <<>>
    /\ fnRet' = <<IF getPricingThrows(fnArg.model) THEN Thrown ELSE getPricing(fnArg.model)>>
    /\ UNCHANGED <<fnArg, runVars, uiVars>>

\* parseTimestamp(ts)
CallParseTimestamp ==
    /\ fnArg.fn = "parseTimestamp"
    /\ fnRet = <<>>
    /\ fnRet' = <<parseTimestamp(fnArg.ts)>>
    /\ UNCHANGED <<fnArg, runVars, uiVars>>

InitCalls ==
    /\ disk = [p \in LogPaths |-> NoFile]
    /\ cacheFile = Absent
    /\ tmpFile = Absent
    /\ dataJs = Absent
    /\ pc = "idle"
    /\ srcIdx = 1
    /\ allSessions = <<>>
    /\ cachedSessions = <<>>
    /\ written = 0
    /\ oldCache = NoLedger
    /\ scanned = <<>>
    /\ calls = <<>>
    /\ loadArg = <<>>
    /\ mergeArg = <<>>
    /\ saveArg = <<>>
    /\ runs = 0
    /\ edits = 0
    /\ prevLedger = NoLedger
    /\ changed = {}
    /\ appended = {}
    /\ orphans = {}
    /\ \/ fnArg \in ParseCalls
       \/ fnArg \in PricingCalls
       \/ fnArg \in TimestampCalls
    /\ fnRet = <<>>
    /\ PageLoaded

NextCalls ==
    \/ CallParse
    \/ CallPushSessions
    \/ CallGetPricing
    \/ CallParseTimestamp

SpecCalls == InitCalls /\ [][NextCalls]_vars

(* SpecScan: runs of the collector over a fixed set of log files, some of   *)
(* which make their parser throw.                                           *)

\* the log files of SpecScan: two of one collector, and one each of three others
ScanPaths ==
    <<".openclaw/agents/main/sessions/o.jsonl",
      ".claude/projects/a/s.jsonl",
      ".claude/projects/b/t.jsonl",
      ".aider/x.jsonl",
      ".continue/sessions/c.json">>

\* what a path can hold: nothing, a log that parses, a log that makes its
\* parser throw after a usage event (Continue: a document that is no JSON,
\* and one whose second step is null)
FilesAt(p) ==
    CASE VariantOf(p) = "OpenClaw" ->
             {NoFile, File(<<OcStamped>>, FirstRunAt), File(<<OcStamped, Null>>, FirstRunAt)}
      [] VariantOf(p) = "ClaudeCode" ->
             {NoFile, File(<<CcStamped>>, FirstRunAt), File(<<CcStamped, Null>>, FirstRunAt)}
      [] VariantOf(p) = "Aider" ->
             {NoFile, File(<<AiStamped>>, FirstRunAt), File(<<AiStamped, Null>>, FirstRunAt)}
      [] VariantOf(p) = "Continue" ->
             {NoFile, File(<<Obj([steps |-> Arr(<<StStamped>>)])>>, FirstRunAt),
              File(<<BadJson>>, FirstRunAt),
              File(<<Obj([steps |-> Arr(<<StStamped, Null>>)])>>, FirstRunAt)}

InitScan ==
    /\ \E f1 \in FilesAt(ScanPaths[1]), f2 \in FilesAt(ScanPaths[2]),
          f3 \in FilesAt(ScanPaths[3]), f4 \in FilesAt(ScanPaths[4]),
          f5 \in FilesAt(ScanPaths[5]) :
          disk = (ScanPaths[1] :> f1) @@ (ScanPaths[2] :> f2) @@ (ScanPaths[3] :> f3)
                     @@ (ScanPaths[4] :> f4) @@ (ScanPaths[5] :> f5)
    /\ cacheFile = Absent
    /\ tmpFile = Absent
    /\ dataJs = Absent
    /\ pc = "idle"
    /\ srcIdx = 1
    /\ allSessions = <<>>
    /\ cachedSessions = <<>>
    /\ written = 0
    /\ oldCache = NoLedger
    /\ scanned = <<>>
    /\ calls = <<>>
    /\ loadArg = <<>>
    /\ mergeArg = <<>>
    /\ saveArg = <<>>
    /\ runs = 0
    /\ edits = 0
    /\ prevLedger = NoLedger
    /\ changed = {}
    /\ appended = {}
    /\ orphans = {}
    /\ fnArg = NoCall
    /\ fnRet = <<>>
    /\ PageLoaded

\* a step of the script
RunStep ==
    \/ Collect
    \/ LoadCache
    \/ Merge
    \/ Summarize
    \/ SaveOpen
    \/ SaveWrite
    \/ SaveRename
    \/ WriteData

NextScan ==
    \/ Start
    \/ RunStep

SpecScan == InitScan /\ [][NextScan]_vars

----------------------------------------------------------------------------
(* SpecDashboard: the dashboard page open in the browser. The user clicks  *)
(* day rows, the toggle-all button (or presses Shift+E) and the heatmap's  *)
(* Hours/Days buttons; between two clicks any pending timer that the       *)
(* ordering of setTimeout allows may fire. A handler runs to completion.   *)

MaxDays == 3      \* day rows in the session table
MaxClicks == 4    \* clicks and key presses made on the page

Days == 1..MaxDays

Views == {"hours", "days"}

\* setTimeout(() => { if (shouldExpand && ...) ... }, index * 10) for the row
\* of `day`, whose index in dayRows is day - 1
RowTimer(day, shouldExpand) ==
    [kind |-> "row", day |-> day, view |-> "", shouldExpand |-> shouldExpand,
     delay |-> (day - 1) * 10]

\* setTimeout(() => { ...forEach(bar => bar.style.width = bar.dataset.width) }, 50)
BarsTimer(day) ==
    [kind |-> "bars", day |-> day, view |-> "", shouldExpand |-> TRUE, delay |-> 50]

\* setTimeout(() => { outgoing.classList.remove(..); incoming.classList.add(..) }, 200)
\* of switchView(view): incoming is the view, outgoing the other one
ViewTimer(view) ==
    [kind |-> "view", day |-> 0, view |-> view, shouldExpand |-> TRUE, delay |-> 200]

\* the timer at position k may run next: no timer set before it with a delay
\* equal to or less than its own is still pending
MayFire(k) ==
    /\ k \in 1..Len(timers)
    /\ \A j \in 1..(k - 1) : timers[j].delay > timers[k].delay

\* the pending timers without the one at position k
Without(k) == [i \in 1..(Len(timers) - 1) |-> IF i < k THEN timers[i] ELSE timers[i + 1]]

\* the timers that toggleAllDays sets, in the order of dayRows
RECURSIVE RowTimers(_, _)
RowTimers(day, shouldExpand) ==
    IF day > MaxDays THEN <<>>
    ELSE <<RowTimer(day, shouldExpand)>> \o RowTimers(day + 1, shouldExpand)

\* export function toggleDay(date), from the onclick of the day's row
ToggleDay(date) ==
    /\ clicks < MaxClicks
    /\ clicks' = clicks + 1
    /\ IF date \in expanded
       THEN /\ expanded' = expanded \ {date}
            /\ open' = open \ {date}
            /\ timers' = timers
       ELSE /\ expanded' = expanded \cup {date}
            /\ open' = open \cup {date}
            /\ timers' = Append(timers, BarsTimer(date))
    /\ btnExpanded' = (expanded' # {})
    /\ UNCHANGED <<bars, currentView, toggleShows, active, exiting, runVars, fnVars>>

\* export function toggleAllDays(), from the button or Shift+E
ToggleAllDays ==
    /\ clicks < MaxClicks
    /\ clicks' = clicks + 1
    /\ IF Days = {}
       THEN UNCHANGED <<timers, btnExpanded>>
       ELSE \E shouldExpand \in {expanded = {}} :
               /\ timers' = timers \o RowTimers(1, shouldExpand)
               /\ btnExpanded' = shouldExpand
    /\ UNCHANGED <<expanded, open, bars, currentView, toggleShows, active, exiting,
                   runVars, fnVars>>

\* the callback that toggleAllDays set for one row
RowTimerFires(k) ==
    /\ MayFire(k)
    /\ timers[k].kind = "row"
    /\ \E t \in {timers[k]} :
          IF t.shouldExpand /\ t.day \notin expanded
          THEN /\ expanded' = expanded \cup {t.day}
               /\ open' = open \cup {t.day}
               /\ timers' = Append(Without(k), BarsTimer(t.day))
          ELSE IF ~t.shouldExpand /\ t.day \in expanded
          THEN /\ expanded' = expanded \ {t.day}
               /\ open' = open \ {t.day}
               /\ timers' = Without(k)
          ELSE /\ timers' = Without(k)
               /\ UNCHANGED <<expanded, open>>
    /\ UNCHANGED <<bars, btnExpanded, currentView, toggleShows, active, exiting, clicks,
                   runVars, fnVars>>

\* the callback that gives the cost bars of an expanded day their width
BarsTimerFires(k) ==
    /\ MayFire(k)
    /\ timers[k].kind = "bars"
    /\ bars' = bars \cup {timers[k].day}
    /\ timers' = Without(k)
    /\ UNCHANGED <<expanded, open, btnExpanded, currentView, toggleShows, active,
                   exiting, clicks, runVars, fnVars>>

\* function switchView(view), from the click on the Hours or the Days button
SwitchView(view) ==
    /\ clicks < MaxClicks
    /\ clicks' = clicks + 1
    /\ IF view = currentView
       THEN UNCHANGED <<currentView, toggleShows, active, exiting, timers>>
       ELSE /\ currentView' = view
            /\ toggleShows' = view
            /\ \E outgoing \in Views \ {view} :
                  /\ exiting' = exiting \cup {outgoing}
                  /\ active' = active \ {outgoing}
            /\ timers' = Append(timers, ViewTimer(view))
    /\ UNCHANGED <<expanded, open, bars, btnExpanded, runVars, fnVars>>

\* the callback that switchView set: the end of the transition
ViewTimerFires(k) ==
    /\ MayFire(k)
    /\ timers[k].kind = "view"
    /\ \E incoming \in {timers[k].view} :
          /\ exiting' = exiting \ (Views \ {incoming})
          /\ active' = active \cup {incoming}
    /\ timers' = Without(k)
    /\ UNCHANGED <<expanded, open, bars, btnExpanded, currentView, toggleShows, clicks,
                   runVars, fnVars>>

\* the page is open and the script is not running
InitDashboard ==
    /\ Init
    /\ cacheFile = Absent

NextDashboard ==
    \/ \E date \in Days : ToggleDay(date)
    \/ ToggleAllDays
    \/ \E view \in Views : SwitchView(view)
    \/ \E k \in 1..Len(timers) : RowTimerFires(k)
    \/ \E k \in 1..Len(timers) : BarsTimerFires(k)
    \/ \E k \in 1..Len(timers) : ViewTimerFires(k)

SpecDashboard == InitDashboard /\ [][NextDashboard]_vars

----------------------------------------------------------------------------
(* Properties *)

\* the key `source|file|date` of a session
C1_KeyOf(s) == Get(s, "source").v \o "|" \o Get(s, "file").v \o "|" \o Get(s, "date").v

\* the positions of list at which a session of key k stands
C1_At(list, k) == {j \in 1..Len(list) : C1_KeyOf(list[j]) = k}

\* C1: for every pair of lists (fresh, cached), mergeSessions returns all
\* fresh sessions unchanged, followed by exactly the cached sessions whose key
\* source|file|date no fresh session has; when fresh holds one session for a
\* key, the result holds exactly one session for that key, the fresh one with
\* its cost.
C1_MergeFreshWins ==
    mergeArg # <<>> =>
        LET fresh == mergeArg[1].fresh
            cached == mergeArg[1].cached
            result == mergeArg[1].merged
            rest == SubSeq(result, Len(fresh) + 1, Len(result))
        IN /\ Len(result) >= Len(fresh)
           /\ SubSeq(result, 1, Len(fresh)) = fresh
           /\ rest = SelectSeq(cached, LAMBDA s : C1_At(fresh, C1_KeyOf(s)) = {})
           /\ \A i \in 1..Len(fresh) :
                C1_At(fresh, C1_KeyOf(fresh[i])) = {i}
                    => /\ C1_At(result, C1_KeyOf(fresh[i])) = {i}
                       /\ Get(result[i], "cost") = Get(fresh[i], "cost")

\* C1 witness: a merge of a fresh session with a cached session of the same
\* key and another cost, and with a cached session of another key
C1_Witness ==
    /\ mergeArg # <<>>
    /\ pc = "save"
    /\ \E i \in 1..Len(mergeArg[1].fresh) : \E j, k \in 1..Len(mergeArg[1].cached) :
          /\ C1_KeyOf(mergeArg[1].cached[j]) = C1_KeyOf(mergeArg[1].fresh[i])
          /\ Get(mergeArg[1].cached[j], "cost") # Get(mergeArg[1].fresh[i], "cost")
          /\ C1_At(mergeArg[1].fresh, C1_KeyOf(mergeArg[1].cached[k])) = {}
          /\ Len(mergeArg[1].merged) = Len(mergeArg[1].fresh) + 1

\* the (source, file, date) triple of a session
C2_Triple(s) == <<Get(s, "source"), Get(s, "file"), Get(s, "date")>>

\* C2: after any sequence of collector runs starting from an empty or absent
\* cache, the persisted ledger never contains two sessions with the same
\* (source, file, date) triple, whatever the layout of the log files.
C2_UniqueTriples ==
    \A i, j \in 1..Len(Entries(cacheFile)) :
        i # j => C2_Triple(Entries(cacheFile)[i]) # C2_Triple(Entries(cacheFile)[j])

\* C2 witness: the persisted ledger holds two Claude Code sessions of one
\* triple, scanned from two files of the same basename in two project
\* directories
C2_Witness ==
    /\ pc = "done"
    /\ Present(disk) = {".claude/projects/a/s.jsonl", ".claude/projects/b/s.jsonl"}
    /\ \E i, j \in 1..Len(Entries(cacheFile)) :
          /\ i < j
          /\ C2_Triple(Entries(cacheFile)[i]) = C2_Triple(Entries(cacheFile)[j])
          /\ Get(Entries(cacheFile)[i], "source") = Str("Claude Code")

\* C3: running the whole pipeline twice in succession with no change to any
\* log file yields the same persisted ledger after the second run as after
\* the first: same sessions, same number of entries, no key added or
\* duplicated.
C3_Idempotent ==
    (pc = "data" /\ prevLedger # NoLedger /\ changed = {}) => cacheFile = prevLedger

\* C3 witness: a second run over unchanged log files has saved its ledger,
\* which holds fresh sessions of two files
C3_Witness ==
    /\ pc = "data"
    /\ prevLedger # NoLedger
    /\ changed = {}
    /\ Cardinality(Present(disk)) >= 2
    /\ Len(Entries(cacheFile)) >= 2
    /\ Len(cachedSessions) >= 2

\* the sessions of the ledger that carry a source label and a file name
C4_RowsOf(cf, source, file) ==
    {s \in Range(Entries(cf)) : Get(s, "source") = Str(source) /\ Get(s, "file") = Str(file)}

\* C4: when a log file that is represented in the persisted ledger is
\* appended to and the collector is run again, then after that run the
\* ledger's sessions for that (source, file) are exactly the sessions of the
\* fresh scan of the file; no day-row of the earlier scan survives.
C4_AppendReplacesRows ==
    pc = "data" =>
        \A p \in appended :
            C4_RowsOf(cacheFile, LabelOf(p), Basename(p)) = Range(FreshScan(disk, p))

\* C5: history is not lost: the sessions persisted for a log file that was
\* later deleted are still, unchanged, in every ledger persisted afterwards,
\* whatever other log files exist for the same tool.
C5_HistoryKept ==
    pc = "data" => \A o \in orphans : o.session \in Range(Entries(cacheFile))

\* C6: a collector never emits two sessions derived from the same physical
\* file and date, also when the file is reachable through two of the tool's
\* candidate directories.
C6_FileCountedOnce ==
    pc \in {"collect", "loadCache", "merge"} =>
        \A i, j \in 1..Len(scanned) :
            (i # j /\ scanned[i] = scanned[j])
                => Get(allSessions[i], "date") # Get(allSessions[j], "date")

\* the positions of the run's log of calls at which a call stands
C7_At(name) == {k \in 1..Len(calls) : calls[k] = name}

\* C7: in every run, loadCache and mergeSessions execute only after all nine
\* source collectors have returned, and saveCache only after mergeSessions
\* has returned; saveCache is called exactly once per run, with the merged
\* list, and before data.js is written.
C7_CallOrder ==
    /\ \A k \in C7_At("loadCache") \cup C7_At("mergeSessions") :
          /\ k > Len(sources)
          /\ SubSeq(calls, 1, Len(sources)) = sources
    /\ \A k \in C7_At("mergeSessions") : \E l \in C7_At("loadCache") : l < k
    /\ saveArg # <<>> =>
          /\ C7_At("mergeSessions") # {}
          /\ Len(mergeArg) = 1
          /\ saveArg = <<mergeArg[1].merged>>
    /\ Cardinality(C7_At("saveCache")) <= 1
    /\ \A k \in C7_At("saveCache") : \A l \in C7_At("mergeSessions") : l < k
    /\ \A k \in C7_At("data.js") :
          /\ Cardinality(C7_At("saveCache")) = 1
          /\ \A l \in C7_At("saveCache") : l < k
    /\ pc = "done" => C7_At("data.js") # {}

\* C7 witness: a run over two log files and a non-empty cache has ended
C7_Witness ==
    /\ pc = "done"
    /\ runs = 2
    /\ Len(mergeArg) = 1
    /\ Len(mergeArg[1].fresh) >= 2
    /\ Len(mergeArg[1].cached) >= 1
    /\ Len(saveArg[1]) > Len(mergeArg[1].fresh)

\* renameSync has put the temporary file in the place of CACHE_FILE
C8_Renamed == C7_At("saveCache") # {} /\ C7_At("warn:saveCache") = {}

\* C8: at every point of saveCache, also when the process stops between two
\* of its steps or in the middle of the write, CACHE_FILE holds the complete
\* previously persisted ledger or the complete new ledger, never a partial
\* one; the new content becomes visible only through the rename.
C8_AtomicSave ==
    saveArg # <<>> =>
        cacheFile = IF C8_Renamed THEN Text(JSONstringify(saveArg[1])) ELSE oldCache

\* C8 witness: the process has stopped in the middle of the write of a
\* ledger of two entries over a ledger of one entry
C8_Witness ==
    /\ pc = "stopped"
    /\ saveArg # <<>>
    /\ Len(saveArg[1]) = 2
    /\ tmpFile = Partial(SubSeq(JSONstringify(saveArg[1]).v, 1, 1))
    /\ Len(Entries(oldCache)) = 1
    /\ cacheFile = oldCache

\* the cache file is missing, unreadable, not valid JSON, or JSON whose root
\* is not an array
C9_Corrupt(cf) ==
    \/ cf.kind \in {"absent", "unreadable"}
    \/ cf.json = BadJson
    \/ cf.json.t # "array"

\* C9: when the cache file is missing, unreadable, not valid JSON, or valid
\* JSON whose root is not an array, loadCache returns the empty list and the
\* run completes with a merged ledger equal to the fresh sessions only.
C9_CorruptCacheIsEmpty ==
    (loadArg # <<>> /\ C9_Corrupt(loadArg[1])) =>
        /\ cachedSessions = <<>>
        /\ pc \notin {"loadCache"}
        /\ mergeArg # <<>> => mergeArg[1].merged = mergeArg[1].fresh
        /\ pc = "done" =>
              /\ allSessions = mergeArg[1].fresh
              /\ C8_Renamed => cacheFile = Text(JSONstringify(mergeArg[1].fresh))

\* C9 witness: a run that found {"not": "an array"} in the cache file has
\* ended with the ledger of its two fresh sessions
C9_Witness ==
    /\ pc = "done"
    /\ loadArg = <<Text(Obj([not |-> Str("an array")]))>>
    /\ C7_At("warn:loadCache") # {}
    /\ Len(allSessions) = 2
    /\ cacheFile = Text(JSONstringify(allSessions))

\* an entry that is non-null and has a string source, a string file, a
\* string date and a numeric cost
C10_WellFormed(e) ==
    /\ e.t = "object"
    /\ \A f \in {"source", "file", "date"} : f \in DOMAIN e.v /\ e.v[f].t = "string"
    /\ "cost" \in DOMAIN e.v /\ e.v["cost"].t = "number"

\* C10: for a cache file whose root is an array, loadCache returns, in their
\* original order, exactly the entries that are non-null and have string
\* source, file and date and numeric cost, however many other entries are
\* invalid.
C10_PerEntryFilter ==
    (loadArg # <<>> /\ ~C9_Corrupt(loadArg[1])) =>
        cachedSessions = SelectSeq(loadArg[1].json.v, C10_WellFormed)

\* C10 witness: loadCache has returned the one valid entry of an array that
\* holds an invalid entry before it
C10_Witness ==
    /\ pc = "merge"
    /\ ~C9_Corrupt(loadArg[1])
    /\ Len(loadArg[1].json.v) = 2
    /\ ~C10_WellFormed(loadArg[1].json.v[1])
    /\ cachedSessions = <<loadArg[1].json.v[2]>>

\* the fresh sessions of this run that were derived from the file at p
C11_FreshOf(p) ==
    LET idx == SelectSeq([i \in 1..Len(scanned) |-> i], LAMBDA i : scanned[i] = p)
    IN [k \in 1..Len(idx) |-> allSessions[idx[k]]]

\* parsing the file at p throws
C11_Throws(p) == disk[p].exists /\ Parse(VariantOf(p), disk[p]).threw

\* the sessions of the buckets the parser returns for the file at p
C11_Expected(p) ==
    pushSessions(<<>>, Parse(VariantOf(p), disk[p]).dayData, LabelOf(p), Basename(p))

\* C11: when the parser throws on a log file, that file adds no session and
\* every other file of its collector and of the later collectors adds the
\* sessions of its buckets; no exception ends the script: the collectors run
\* one after the other, all nine, then loadCache, mergeSessions and saveCache,
\* and the run ends with data.js written.
C11_ParseErrorsContained ==
    /\ pc # "stopped"
    /\ \A p \in DOMAIN disk :
          (disk[p].exists /\ pc # "idle" /\ srcIdx > OwnerOf(p)) =>
              C11_FreshOf(p) = IF C11_Throws(p) THEN <<>> ELSE C11_Expected(p)
    /\ pc = "collect" => calls = SubSeq(sources, 1, srcIdx - 1)
    /\ pc = "loadCache" => calls = sources
    /\ pc \in {"summary", "save", "write", "rename"} =>
          calls = sources \o <<"loadCache", "mergeSessions">>
    /\ pc = "data" => calls = sources \o <<"loadCache", "mergeSessions", "saveCache">>
    /\ pc = "done" =>
          /\ calls = sources \o <<"loadCache", "mergeSessions", "saveCache", "data.js">>
          /\ dataJs # Absent

\* a run has ended in which one Claude Code log made the parser throw, the
\* other one gave a session, and so did the Aider log, scanned later
C11_Witness ==
    /\ pc = "done"
    /\ C11_Throws(".claude/projects/a/s.jsonl")
    /\ C11_FreshOf(".claude/projects/a/s.jsonl") = <<>>
    /\ C11_FreshOf(".claude/projects/b/t.jsonl") # <<>>
    /\ C11_FreshOf(".aider/x.jsonl") # <<>>
    /\ dataJs # Absent

\* the file without the lines on which JSON.parse throws
C12_Clean(file) == File(SelectSeq(file.lines, LAMBDA l : l # BadJson), file.mtime)

\* C12: what a line-delimited parser (OpenClaw, Claude Code, Aider format)
\* returns for a file is what it returns for the file without its malformed
\* lines: the same day buckets, or an exception in both cases.
C12_MalformedLinesSkipped ==
    (fnArg.fn = "parse" /\ fnArg.variant # "Continue" /\ fnRet # <<>>) =>
        fnRet[1] = Parse(fnArg.variant, C12_Clean(fnArg.file))

\* a parser has returned buckets for a file that holds a malformed line
\* before a usage event
C12_Witness ==
    /\ fnArg.fn = "parse"
    /\ fnArg.variant \in {"OpenClaw", "ClaudeCode", "Aider"}
    /\ Len(fnArg.file.lines) = 2
    /\ fnArg.file.lines[1] = BadJson
    /\ fnRet # <<>>
    /\ ~fnRet[1].threw
    /\ fnRet[1].dayData # <<>>

\* the day buckets that pushSessions was given and that are not negligible
C13_Kept == SelectSeq(fnRet[1].dayData, LAMBDA e : e.dd.cost >= NegligibleCost)

\* C13: pushSessions emits nothing for a bucket whose cost is below 0.0001 and
\* one session for each other bucket, in order: with the bucket's date, its
\* four token counts unchanged, and its cost rounded to four decimals, which
\* is at least 0.0001.
C13_NegligibleDropped ==
    (fnArg.fn = "parse" /\ Len(fnRet) = 2) =>
        /\ Len(fnRet[2]) = Len(C13_Kept)
        /\ \A k \in 1..Len(fnRet[2]) :
              LET s == fnRet[2][k]
                  e == C13_Kept[k]
              IN /\ Get(s, "date") = Str(e.date)
                 /\ Get(s, "input_tokens") = Num(e.dd.input_tokens)
                 /\ Get(s, "output_tokens") = Num(e.dd.output_tokens)
                 /\ Get(s, "cache_read") = Num(e.dd.cache_read)
                 /\ Get(s, "cache_write") = Num(e.dd.cache_write)
                 /\ Get(s, "cost").v * 10000 >= e.dd.cost - 5000
                 /\ Get(s, "cost").v * 10000 <= e.dd.cost + 5000
                 /\ Get(s, "cost").v >= 1

\* pushSessions was given a bucket of cost 0.00005 and one of cost 0.0002 and
\* has emitted one session
C13_Witness ==
    /\ fnArg.fn = "parse"
    /\ Len(fnRet) = 2
    /\ \E i, j \in 1..Len(fnRet[1].dayData) :
          fnRet[1].dayData[i].dd.cost = 5000 /\ fnRet[1].dayData[j].dd.cost = 20000
    /\ Len(fnRet[2]) = 1
    /\ Get(fnRet[2][1], "cost") = Num(2)

\* a token count of a usage object: the number in the field, 0 without it
C14_Count(usage, f) == IF Truthy(Get(usage, f)) THEN Get(usage, f).v ELSE 0

\* what one line of a Claude Code log says: whether it is an accepted usage
\* event, its local date, its token counts and its cost at its model's rate
C14_Event(entry, file) ==
    IF entry.t # "object" THEN [accepted |-> FALSE]
    ELSE
    LET msg == Get(entry, "message")
        usage == IF Truthy(Get(msg, "usage")) THEN Get(msg, "usage") ELSE Get(entry, "usage")
        inp == C14_Count(usage, "input_tokens")
        out == C14_Count(usage, "output_tokens")
        cw == C14_Count(usage, "cache_creation_input_tokens")
        cr == C14_Count(usage, "cache_read_input_tokens")
        ts == IF Truthy(parseTimestamp(Get(entry, "timestamp")))
              THEN parseTimestamp(Get(entry, "timestamp"))
              ELSE parseTimestamp(Get(msg, "timestamp"))
        date == IF Truthy(ts) THEN toLocalDate(ts) ELSE toLocalDate(Num(file.mtime))
        model == IF Truthy(Get(msg, "model")) THEN Get(msg, "model")
                 ELSE IF Truthy(Get(entry, "model")) THEN Get(entry, "model")
                 ELSE Str("")
        rate == getPricing(model)
    IN IF ~Truthy(usage) \/ (inp = 0 /\ out = 0 /\ cw = 0 /\ cr = 0) \/ ~Truthy(date)
       THEN [accepted |-> FALSE]
       ELSE [accepted |-> TRUE, date |-> date.v,
             input_tokens |-> inp, output_tokens |-> out,
             cache_write |-> cw, cache_read |-> cr,
             cost |-> inp * rate.input + out * rate.output
                          + cw * rate.cacheWrite + cr * rate.cacheRead,
             count |-> 1]

\* the accepted events of the file that was parsed
C14_Events ==
    LET all == [i \in 1..Len(fnArg.file.lines) |-> C14_Event(fnArg.file.lines[i], fnArg.file)]
    IN SelectSeq(all, LAMBDA e : e.accepted)

\* the sum of a field over the events of a date
RECURSIVE C14_Sum(_, _, _)
C14_Sum(events, date, f) ==
    IF events = <<>> THEN 0
    ELSE (IF Head(events).date = date THEN Head(events)[f] ELSE 0)
         + C14_Sum(Tail(events), date, f)

C14_Dates(events) == {events[i].date : i \in 1..Len(events)}

\* the sessions emitted for a date
C14_SessionsOn(date) == SelectSeq(fnRet[2], LAMBDA s : Get(s, "date") = Str(date))

\* the session s carries the sums of the events of the date
C14_IsSum(s, events, date) ==
    /\ Get(s, "input_tokens") = Num(C14_Sum(events, date, "input_tokens"))
    /\ Get(s, "output_tokens") = Num(C14_Sum(events, date, "output_tokens"))
    /\ Get(s, "cache_write") = Num(C14_Sum(events, date, "cache_write"))
    /\ Get(s, "cache_read") = Num(C14_Sum(events, date, "cache_read"))
    /\ Get(s, "cost").v * 10000 >= C14_Sum(events, date, "cost") - 5000
    /\ Get(s, "cost").v * 10000 <= C14_Sum(events, date, "cost") + 5000

C14_Parsed == fnArg.fn = "parse" /\ fnArg.variant = "ClaudeCode" /\ Len(fnRet) = 2

\* C14 as stated: the accepted events of a Claude Code log that resolve to one
\* local date yield one session, which carries the sums of their token counts
\* and the sum of their costs, each at its own model's rate, rounded to four
\* decimals.
C14_OneSessionPerDate ==
    C14_Parsed =>
        \A date \in C14_Dates(C14_Events) :
            /\ Len(C14_SessionsOn(date)) = 1
            /\ C14_IsSum(C14_SessionsOn(date)[1], C14_Events, date)

\* C14, amended: the accepted events of a Claude Code log that resolve to one
\* local date are added up in one day bucket (token counts, cost at each
\* event's own model rate, one time of day per event); a line whose four token
\* counts are zero adds nothing, not even a bucket.  The date yields one
\* session with these sums, the cost rounded to four decimals, when the summed
\* cost is at least 0.0001, and no session when it is below.
C14_DailySums ==
    C14_Parsed =>
        LET events == C14_Events
            dayData == fnRet[1].dayData
        IN /\ {dayData[i].date : i \in 1..Len(dayData)} = C14_Dates(events)
           /\ \A i \in 1..Len(dayData) :
                 LET dd == dayData[i].dd
                     date == dayData[i].date
                 IN /\ dd.input_tokens = C14_Sum(events, date, "input_tokens")
                    /\ dd.output_tokens = C14_Sum(events, date, "output_tokens")
                    /\ dd.cache_write = C14_Sum(events, date, "cache_write")
                    /\ dd.cache_read = C14_Sum(events, date, "cache_read")
                    /\ dd.cost = C14_Sum(events, date, "cost")
                    /\ Len(dd.times) = C14_Sum(events, date, "count")
           /\ \A date \in C14_Dates(events) :
                 IF C14_Sum(events, date, "cost") >= 10000
                 THEN /\ Len(C14_SessionsOn(date)) = 1
                      /\ C14_IsSum(C14_SessionsOn(date)[1], events, date)
                 ELSE C14_SessionsOn(date) = <<>>
           /\ \A k \in 1..Len(fnRet[2]) : Get(fnRet[2][k], "date").v \in C14_Dates(events)

\* the two lines of the example: 1000 + 2000 input and 500 + 0 output tokens of
\* claude-sonnet-4-5 on 2025-01-10 have given one session of cost 0.0165
C14_Witness ==
    /\ C14_Parsed
    /\ fnArg.file.lines = <<CcStamped, CcSecond>>
    /\ Len(fnRet[2]) = 1
    /\ Get(fnRet[2][1], "date") = Str("2025-01-10")
    /\ Get(fnRet[2][1], "input_tokens") = Num(3000)
    /\ Get(fnRet[2][1], "output_tokens") = Num(500)
    /\ Get(fnRet[2][1], "cost") = Num(165)

\* what one line of an OpenClaw log says: whether it is an accepted usage
\* event, its local date, its token counts, and its cost: the precomputed total
\* when the usage carries one, the cost at its model's rate otherwise
C15_Event(entry, file) ==
    IF entry.t # "object" THEN [accepted |-> FALSE]
    ELSE
    LET msg == Get(entry, "message")
        usage == IF Truthy(Get(msg, "usage")) THEN Get(msg, "usage") ELSE Get(entry, "usage")
        total == Get(Get(usage, "cost"), "total")
        inp == C14_Count(usage, "input")
        out == C14_Count(usage, "output")
        cw == C14_Count(usage, "cacheWrite")
        cr == C14_Count(usage, "cacheRead")
        ts == IF Truthy(parseTimestamp(Get(entry, "timestamp")))
              THEN parseTimestamp(Get(entry, "timestamp"))
              ELSE parseTimestamp(Get(msg, "timestamp"))
        date == IF Truthy(ts) THEN toLocalDate(ts) ELSE toLocalDate(Num(file.mtime))
        model == IF Truthy(Get(msg, "model")) THEN Get(msg, "model")
                 ELSE IF Truthy(Get(entry, "model")) THEN Get(entry, "model")
                 ELSE Str("")
        rate == getPricing(model)
    IN IF \/ ~Truthy(usage)
          \/ (~Truthy(Get(usage, "cost")) /\ inp = 0 /\ out = 0)
          \/ ~Truthy(date)
       THEN [accepted |-> FALSE]
       ELSE [accepted |-> TRUE, date |-> date.v,
             input_tokens |-> inp, output_tokens |-> out,
             cache_write |-> cw, cache_read |-> cr,
             cost |-> IF total.t = "number" THEN total.v
                      ELSE inp * rate.input + out * rate.output
                               + cw * rate.cacheWrite + cr * rate.cacheRead]

C15_Events ==
    LET all == [i \in 1..Len(fnArg.file.lines) |-> C15_Event(fnArg.file.lines[i], fnArg.file)]
    IN SelectSeq(all, LAMBDA e : e.accepted)

C15_Parsed == fnArg.fn = "parse" /\ fnArg.variant = "OpenClaw" /\ Len(fnRet) >= 1 /\ ~fnRet[1].threw

\* C15: in an OpenClaw log every accepted event whose usage carries a
\* precomputed total cost adds that value, 0 included, to the cost of its day
\* bucket, every other accepted event adds the cost of its token counts at its
\* model's rate, and the token counts are added in both cases.
C15_PrecomputedTotalUsed ==
    C15_Parsed =>
        LET events == C15_Events
            dayData == fnRet[1].dayData
        IN /\ {dayData[i].date : i \in 1..Len(dayData)} = C14_Dates(events)
           /\ \A i \in 1..Len(dayData) :
                 LET dd == dayData[i].dd
                     date == dayData[i].date
                 IN /\ dd.cost = C14_Sum(events, date, "cost")
                    /\ dd.input_tokens = C14_Sum(events, date, "input_tokens")
                    /\ dd.output_tokens = C14_Sum(events, date, "output_tokens")
                    /\ dd.cache_write = C14_Sum(events, date, "cache_write")
                    /\ dd.cache_read = C14_Sum(events, date, "cache_read")

\* a line with 1000 input and 500 output tokens and a precomputed total of 0
\* has added 0.0105 USD, the cost of its tokens at the default rate
C15_Witness ==
    /\ C15_Parsed
    /\ fnArg.file.lines = <<OcZeroTotal>>
    /\ Len(fnRet[1].dayData) = 1
    /\ fnRet[1].dayData[1].dd.cost = 1050000
    /\ fnRet[1].dayData[1].dd.input_tokens = 1000

\* the usage records of the file that was parsed: the lines of a log, the
\* steps of a Continue session document
C16_Records ==
    IF fnArg.variant # "Continue" THEN fnArg.file.lines
    ELSE LET data == fnArg.file.lines[1]
         IN IF Truthy(Get(data, "steps")) THEN Get(data, "steps").v
            ELSE IF Truthy(Get(data, "history")) THEN Get(data, "history").v
            ELSE <<>>

\* the token fields a parser requires one of to be non-zero
C16_Fields ==
    CASE fnArg.variant = "OpenClaw" -> {"input", "output"}
      [] fnArg.variant = "ClaudeCode" ->
            {"input_tokens", "output_tokens", "cache_creation_input_tokens",
             "cache_read_input_tokens"}
      [] fnArg.variant = "Aider" ->
            {"prompt_tokens", "input_tokens", "completion_tokens", "output_tokens"}
      [] fnArg.variant = "Continue" -> {"promptTokens", "completionTokens"}

\* the record is a usage record its parser accepts
C16_Accepted(r) ==
    /\ r.t = "object"
    /\ LET usage == IF fnArg.variant = "Continue" THEN r
                    ELSE IF Truthy(Get(Get(r, "message"), "usage")) THEN Get(Get(r, "message"), "usage")
                    ELSE IF Truthy(Get(r, "usage")) THEN Get(r, "usage")
                    ELSE Get(Get(r, "response"), "usage")
       IN \E f \in C16_Fields : C14_Count(usage, f) > 0

\* neither the record nor its document carries a timestamp
C16_NoTimestamp(r) ==
    /\ Get(r, "timestamp") = Undef
    /\ Get(Get(r, "message"), "timestamp") = Undef
    /\ Get(r, "created") = Undef
    /\ fnArg.variant = "Continue" => Get(fnArg.file.lines[1], "dateCreated") = Undef

\* the local date of the file's last-modified time
C16_MtimeDate ==
    CivilFromDays((fnArg.file.mtime + TZ_OFFSET * SecondsPerHour) \div SecondsPerDay)

C16_Parsed ==
    /\ fnArg.fn = "parse" /\ Len(fnRet) >= 1 /\ ~fnRet[1].threw
    /\ fnArg.file.lines # <<>>
    /\ fnArg.variant = "Continue" => fnArg.file.lines[1].t = "object"
    /\ \A i \in 1..Len(C16_Records) : C16_Records[i] # Null

\* C16: in every parser an accepted usage record without a timestamp is put in
\* the day bucket of the local date of the file's last-modified time, with the
\* time of day "00:00"; it is not dropped.
C16_FallsBackToMtime ==
    C16_Parsed =>
        \A i \in 1..Len(C16_Records) :
            (C16_Accepted(C16_Records[i]) /\ C16_NoTimestamp(C16_Records[i])) =>
                \E k \in 1..Len(fnRet[1].dayData) :
                    /\ fnRet[1].dayData[k].date = C16_MtimeDate
                    /\ \E j \in 1..Len(fnRet[1].dayData[k].dd.times) :
                          fnRet[1].dayData[k].dd.times[j] = "00:00"

\* a Claude Code log last modified at the epoch, whose only line is an accepted
\* usage record without a timestamp, has given no day bucket
C16_Witness ==
    /\ fnArg.fn = "parse" /\ fnArg.variant = "ClaudeCode"
    /\ fnArg.file.lines = <<CcUnstamped>>
    /\ fnArg.file.mtime = 0
    /\ Len(fnRet) >= 1
    /\ fnRet[1] = Returned(<<>>)

\* the local date of 1700000000000 ms after the epoch
C17_Date == CivilFromDays((1700000 * 1000 + TZ_OFFSET * SecondsPerHour) \div SecondsPerDay)

\* C17: parseTimestamp takes a number below 2,000,000,000 for epoch seconds and
\* returns it times 1000, and returns a number from 2,000,000,000 unchanged; in
\* every parser an accepted event whose timestamp field is the number
\* 1700000000 is put in the day bucket of 1700000000000 ms.
C17_EpochSecondsHeuristic ==
    /\ (fnArg.fn = "parseTimestamp" /\ fnRet # <<>> /\ TypeOf(fnArg.ts) = "number") =>
          IF fnArg.ts.v > 0 /\ fnArg.ts.v < AiderSecondsBelow
          THEN fnRet[1] = Num(fnArg.ts.v * 1000)
          ELSE fnArg.ts.v >= AiderSecondsBelow => fnRet[1] = fnArg.ts
    /\ C16_Parsed =>
          \A i \in 1..Len(C16_Records) :
              (C16_Accepted(C16_Records[i]) /\ Get(C16_Records[i], "timestamp") = Num(1700000)) =>
                  \E k \in 1..Len(fnRet[1].dayData) : fnRet[1].dayData[k].date = C17_Date

\* parseTimestamp has returned the number 1700000000 unchanged
C17_Witness ==
    /\ fnArg.fn = "parseTimestamp"
    /\ fnArg.ts = Num(1700000)
    /\ fnRet = <<Num(1700000)>>

\* the identifier names none of the model families
C18_NoFamily(model) ==
    \/ ~Truthy(model)
    \/ /\ ~Includes(ToLowerCase(model.v), "opus")
       /\ ~Includes(ToLowerCase(model.v), "sonnet")
       /\ ~Includes(ToLowerCase(model.v), "haiku")

\* a rate card with four numeric channels
C18_IsRate(r) ==
    /\ DOMAIN r = {"input", "output", "cacheWrite", "cacheRead"}
    /\ \A f \in DOMAIN r : r[f] \in Nat

\* 3 / 15 / 3.75 / 0.30 USD per million tokens
C18_Default == [input |-> 300, output |-> 1500, cacheWrite |-> 375, cacheRead |-> 30]

\* C18 as stated: getPricing returns a rate card with four numeric channels
\* for every input and never throws, and returns the default Sonnet rate for
\* the empty, null or undefined identifier and for every identifier that
\* contains none of opus, sonnet, haiku in any case.
C18_NeverThrows ==
    (fnArg.fn = "getPricing" /\ fnRet # <<>>) =>
        /\ fnRet[1] # Thrown
        /\ C18_IsRate(fnRet[1])
        /\ (TypeOf(fnArg.model) = "string" \/ ~Truthy(fnArg.model)) =>
              (C18_NoFamily(fnArg.model) => fnRet[1] = C18_Default)

\* C18, amended: for every identifier that is a string, null or undefined,
\* getPricing returns a rate card with four numeric channels and does not
\* throw; it returns the default Sonnet rate for the empty, null or undefined
\* identifier and for every string that contains none of opus, sonnet, haiku in
\* any case.
C18_TotalOnIdentifiers ==
    (/\ fnArg.fn = "getPricing" /\ fnRet # <<>>
     /\ (TypeOf(fnArg.model) = "string" \/ ~Truthy(fnArg.model))) =>
        /\ fnRet[1] # Thrown
        /\ C18_IsRate(fnRet[1])
        /\ C18_NoFamily(fnArg.model) => fnRet[1] = C18_Default

\* getPricing has returned a rate for an identifier of another vendor
C18_Witness ==
    /\ fnArg = [fn |-> "getPricing", model |-> Str("gpt-4o")]
    /\ fnRet = <<C18_Default>>

\* the patterns of the pricing table and their rates
C19_Newest == {"opus-4-6", "opus-4.6", "opus-4-5", "opus-4.5"}
C19_Tags == C19_Newest \cup {"opus-4-1", "opus-4.1", "haiku-4-5", "haiku-4.5"}
C19_Families == {"opus", "sonnet", "haiku"}

C19_TagRate(tag) ==
    IF tag \in C19_Newest
    THEN [input |-> 500, output |-> 2500, cacheWrite |-> 625, cacheRead |-> 50]
    ELSE IF tag \in {"opus-4-1", "opus-4.1"}
    THEN [input |-> 1500, output |-> 7500, cacheWrite |-> 1875, cacheRead |-> 150]
    ELSE [input |-> 100, output |-> 500, cacheWrite |-> 125, cacheRead |-> 10]

C19_FamilyRate(family) ==
    CASE family = "opus" -> [input |-> 1500, output |-> 7500, cacheWrite |-> 1875, cacheRead |-> 150]
      [] family = "sonnet" -> C18_Default
      [] family = "haiku" -> [input |-> 25, output |-> 125, cacheWrite |-> 30, cacheRead |-> 3]

\* the patterns the lower-cased identifier of the call contains
C19_TagsIn == {t \in C19_Tags : Includes(ToLowerCase(fnArg.model.v), t)}
C19_Named == {f \in C19_Families : Includes(ToLowerCase(fnArg.model.v), f)}

C19_Called ==
    /\ fnArg.fn = "getPricing" /\ fnRet # <<>>
    /\ fnArg.model.t = "string"

C20_ReadmeRates ==
    (fnArg.fn = "getPricing" /\ fnRet # <<>>) =>
        \A row \in ReadmePricing : \A version \in row.versions :
            fnArg.model = Str("claude-" \o row.family \o "-" \o version) =>
                fnRet[1] = row.rate

\* getPricing has returned 0.25 / 1.25 / 0.30 / 0.03 for claude-haiku-4-0
C20_Witness ==
    /\ fnArg = [fn |-> "getPricing", model |-> Str("claude-haiku-4-0")]
    /\ fnRet = <<[input |-> 25, output |-> 125, cacheWrite |-> 30, cacheRead |-> 3]>>

\* the summary written to data.js
C21_Summary == dataJs.json.v.summary

\* the sum of the entries of counts under the keys of S
RECURSIVE C21_Sum(_, _)
C21_Sum(counts, S) ==
    IF S = {} THEN 0
    ELSE LET k == CHOOSE x \in S : TRUE
         IN counts[k] + C21_Sum(counts, S \ {k})

\* the per-source entries of session_counts
C21_PerSource == DOMAIN C21_Summary.session_counts \ {"total"}

\* the summary of an empty list: four zeros, and no entry of a source
C21_AllZero ==
    /\ C21_Summary.totals = ("grand_total" :> 0)
    /\ C21_Summary.today_cost = 0
    /\ C21_Summary.month_cost = 0
    /\ C21_Summary.session_counts = ("total" :> 0)

C21_AtEnd ==
    pc = "done" =>
        /\ allSessions = <<>> => C21_AllZero
        /\ C21_Summary.session_counts["total"] = Len(allSessions)
        /\ "total" \notin SourcesOf(allSessions) =>
              C21_Sum(C21_Summary.session_counts, C21_PerSource) = Len(allSessions)

C22_Count(seq, x) == Cardinality({i \in 1..Len(seq) : seq[i] = x})

\* C22: the two session lists of data.js partition the merged ledger: every
\* merged session is in exactly one of them, as often as in the ledger, the
\* first list holds exactly the sessions of the sources OpenClaw and Clawdbot,
\* and the list the dashboard builds from the two has
\* summary.session_counts.total sessions.
C22_ListsPartitionLedger ==
    pc = "done" =>
        LET first == Get(dataJs.json, "openclaw").v
            second == Get(dataJs.json, "claude").v
            merged == JSONstringify(allSessions).v
        IN /\ \A x \in Range(merged) :
                 /\ C22_Count(first, x) + C22_Count(second, x) = C22_Count(merged, x)
                 /\ C22_Count(first, x) = 0 \/ C22_Count(second, x) = 0
                 /\ C22_Count(first, x) > 0 <=>
                       Get(x, "source").v \in {"OpenClaw", "Clawdbot"}
           /\ Range(first) \cup Range(second) \subseteq Range(merged)
           /\ Len(loadDataSessions(dataJs.json)) = C21_Summary.session_counts["total"]

\* data.js holds a session of Clawdbot in its first list and a session of
\* another tool in its second
C22_Witness ==
    /\ pc = "done"
    /\ \E i \in 1..Len(Get(dataJs.json, "openclaw").v) :
          Get(Get(dataJs.json, "openclaw").v[i], "source") = Str("Clawdbot")
    /\ Get(dataJs.json, "claude").v # <<>>

\* the last record of the file that was parsed, and the file without it
C23_Last == C16_Records[Len(C16_Records)]

C23_FrontFile ==
    LET front == SubSeq(C16_Records, 1, Len(C16_Records) - 1)
        data == fnArg.file.lines[1]
    IN IF fnArg.variant # "Continue" THEN File(front, fnArg.file.mtime)
       ELSE File(<<Obj([f \in DOMAIN data.v |->
                          IF f \in {"steps", "history"} THEN Arr(front) ELSE data.v[f]])>>,
                 fnArg.file.mtime)

\* the buckets the parser returns for the file without its last record
C23_Before == Parse(fnArg.variant, C23_FrontFile).dayData

\* the timestamp the parser resolves for a record, in the parser's order of
\* preference, and the key of the record's day bucket
C23_Ts(r) ==
    LET own == parseTimestamp(Get(r, "timestamp"))
        other == CASE fnArg.variant = "Aider" -> parseTimestamp(Get(r, "created"))
                   [] fnArg.variant = "Continue" ->
                         parseTimestamp(Get(fnArg.file.lines[1], "dateCreated"))
                   [] OTHER -> parseTimestamp(Get(Get(r, "message"), "timestamp"))
        created == Get(r, "created")
    IN IF /\ fnArg.variant = "Aider" /\ created.t = "number"
          /\ created.v # 0 /\ created.v < AiderSecondsBelow
       THEN Num(created.v * 1000)
       ELSE IF Truthy(own) THEN own ELSE other

C23_Date(r) ==
    IF Truthy(C23_Ts(r)) THEN toLocalDate(C23_Ts(r)) ELSE toLocalDate(Num(fnArg.file.mtime))

C23_Key(r) == IF C23_Date(r) = Null THEN "null" ELSE C23_Date(r).v

\* the record is a usage event its parser accepts
C23_Accepted(r) ==
    /\ \/ C16_Accepted(r)
       \/ /\ fnArg.variant = "OpenClaw" /\ r.t = "object"
          /\ Truthy(Get(IF Truthy(Get(Get(r, "message"), "usage"))
                        THEN Get(Get(r, "message"), "usage") ELSE Get(r, "usage"), "cost"))
    /\ fnArg.variant # "Continue" => Truthy(C23_Date(r))

\* the input and output token counts of a record
C23_Tokens(r) ==
    LET usage == IF fnArg.variant = "Continue" THEN r
                 ELSE IF Truthy(Get(Get(r, "message"), "usage")) THEN Get(Get(r, "message"), "usage")
                 ELSE IF Truthy(Get(r, "usage")) THEN Get(r, "usage")
                 ELSE Get(Get(r, "response"), "usage")
        First(f, g) == IF C14_Count(usage, f) > 0 THEN C14_Count(usage, f)
                       ELSE C14_Count(usage, g)
    IN CASE fnArg.variant = "OpenClaw" ->
              <<C14_Count(usage, "input"), C14_Count(usage, "output")>>
         [] fnArg.variant = "ClaudeCode" ->
              <<C14_Count(usage, "input_tokens"), C14_Count(usage, "output_tokens")>>
         [] fnArg.variant = "Aider" ->
              <<First("prompt_tokens", "input_tokens"),
                First("completion_tokens", "output_tokens")>>
         [] fnArg.variant = "Continue" ->
              <<C14_Count(usage, "promptTokens"), C14_Count(usage, "completionTokens")>>

\* the sum of a counter over the buckets of a file
RECURSIVE C23_Total(_, _)
C23_Total(dayData, f) ==
    IF dayData = <<>> THEN 0 ELSE Head(dayData).dd[f] + C23_Total(Tail(dayData), f)

\* the dates whose bucket is not the same in the two results
C23_Changed(before, after) ==
    {d \in {before[i].date : i \in 1..Len(before)} \cup {after[i].date : i \in 1..Len(after)} :
        \/ ~HasDay(before, d)
        \/ ~HasDay(after, d)
        \/ before[DayIndex(before, d)].dd # after[DayIndex(after, d)].dd}

\* C23: in every parser an accepted usage event changes exactly one day bucket
\* of the file, the one of the event's resolved local date, which is created
\* when the file has none; the other buckets stay as they are, a record that is
\* not accepted changes none, the token totals over the buckets grow by the
\* counts of the event, and no date has two buckets.
C23_OneBucketPerEvent ==
    (C16_Parsed /\ C16_Records # <<>>) =>
        LET after == fnRet[1].dayData
            before == C23_Before
        IN /\ C23_Changed(before, after) =
                 IF C23_Accepted(C23_Last) THEN {C23_Key(C23_Last)} ELSE {}
           /\ \A i \in 1..Len(before) : HasDay(after, before[i].date)
           /\ \A i, j \in 1..Len(after) : after[i].date = after[j].date => i = j
           /\ C23_Accepted(C23_Last) =>
                 /\ C23_Total(after, "input_tokens") =
                       C23_Total(before, "input_tokens") + C23_Tokens(C23_Last)[1]
                 /\ C23_Total(after, "output_tokens") =
                       C23_Total(before, "output_tokens") + C23_Tokens(C23_Last)[2]

\* an OpenClaw log of two events on different dates has given two buckets, the
\* second event having left the bucket of the first as it was
C23_Witness ==
    /\ fnArg.fn = "parse" /\ fnArg.variant = "OpenClaw"
    /\ fnArg.file.lines = <<OcStamped, OcTinyTotal>>
    /\ Len(fnRet) >= 1
    /\ Len(fnRet[1].dayData) = 2
    /\ C23_Changed(C23_Before, fnRet[1].dayData) = {"2025-01-09"}

\* the model identifier a record names, and whether its parser records it
C24_Model(r) ==
    LET named == CASE fnArg.variant \in {"OpenClaw", "ClaudeCode"} ->
                        IF Truthy(Get(Get(r, "message"), "model"))
                        THEN Get(Get(r, "message"), "model") ELSE Get(r, "model")
                   [] fnArg.variant = "Aider" -> Get(r, "model")
                   [] fnArg.variant = "Continue" ->
                        IF Truthy(Get(r, "model")) THEN Get(r, "model")
                        ELSE Get(fnArg.file.lines[1], "model")
    IN IF Truthy(named) THEN named.v ELSE ""

C24_Recognized(r) ==
    IF fnArg.variant \in {"OpenClaw", "ClaudeCode"}
    THEN StartsWith(C24_Model(r), "claude")
    ELSE Includes(C24_Model(r), "claude")

\* the records of the file, in file order, that are accepted events of the
\* date and name a recognized model
C24_Naming(date) ==
    SelectSeq(C16_Records,
              LAMBDA r : C23_Accepted(r) /\ C23_Key(r) = date /\ C24_Recognized(r))

C24_Pushed == C16_Parsed /\ Len(fnRet) = 2

\* C24: the model of a session is the last-seen model of its file and day: the
\* identifier of the last event, in file order, among the accepted events of
\* the day that name a recognized model, and the empty string without such an
\* event; events naming A, B, A give A.
C24_LastSeenModel ==
    C24_Pushed =>
        \A k \in 1..Len(fnRet[2]) :
            LET naming == C24_Naming(Get(fnRet[2][k], "date").v)
            IN Get(fnRet[2][k], "model").v =
                  IF naming = <<>> THEN "" ELSE C24_Model(naming[Len(naming)])

\* the events of one day name Sonnet, Opus and Sonnet again, and the session
\* of the day has the model Opus
C24_Witness ==
    /\ C24_Pushed
    /\ fnArg.file.lines = <<OcModelLine("claude-sonnet-4-5"), OcModelLine("claude-opus-4-5"),
                            OcModelLine("claude-sonnet-4-5")>>
    /\ Len(fnRet[2]) = 1
    /\ Get(fnRet[2][1], "model") = Str("claude-opus-4-5")

\* a sequence without the repetitions of its elements
RECURSIVE C25_Distinct(_)
C25_Distinct(seq) ==
    IF seq = <<>> THEN <<>>
    ELSE LET front == C25_Distinct(SubSeq(seq, 1, Len(seq) - 1))
             x == seq[Len(seq)]
         IN IF \E i \in 1..Len(front) : front[i] = x THEN front ELSE Append(front, x)

\* the recognized models of a date in the order of their first occurrence
C25_Models(date) ==
    LET naming == C24_Naming(date)
    IN C25_Distinct([i \in 1..Len(naming) |-> C24_Model(naming[i])])

\* C25: the model of a session that pushSessions emits is the last element of
\* its bucket's set of recognized models, which holds each model once, in the
\* order of first insertion: it is the model whose first occurrence in the
\* file is latest, and the empty string when the set is empty.
C25_LastInsertedModel ==
    C24_Pushed =>
        \A k \in 1..Len(fnRet[2]) :
            LET date == Get(fnRet[2][k], "date").v
                models == fnRet[1].dayData[DayIndex(fnRet[1].dayData, date)].dd.models
            IN /\ models = C25_Models(date)
               /\ Get(fnRet[2][k], "model").v =
                     IF models = <<>> THEN "" ELSE models[Len(models)]

\* the events of one day name Opus, Sonnet and Opus again, and the session of
\* the day has the model Sonnet, the one that was first seen last
C25_Witness ==
    /\ C24_Pushed
    /\ fnArg.file.lines = <<OcModelLine("claude-opus-4-5"), OcModelLine("claude-sonnet-4-5"),
                            OcModelLine("claude-opus-4-5")>>
    /\ Len(fnRet[2]) = 1
    /\ fnRet[1].dayData[1].dd.models = <<"claude-opus-4-5", "claude-sonnet-4-5">>
    /\ Get(fnRet[2][1], "model") = Str("claude-sonnet-4-5")

\* the time of day the parser records for an accepted record
C26_Time(r) == IF Truthy(C23_Ts(r)) THEN toLocalTime(C23_Ts(r)).v ELSE "00:00"

\* the times of day of the accepted events of a date
C26_Times(date) ==
    {C26_Time(C16_Records[i]) :
        i \in {j \in 1..Len(C16_Records) :
                 C23_Accepted(C16_Records[j]) /\ C23_Key(C16_Records[j]) = date}}

\* C26: the time of a session is the least, in lexicographic order, of the
\* "HH:MM" strings recorded for its file and day, one per accepted event: the
\* event's local time of day, or "00:00" for an event without a timestamp; it
\* is "00:00" when none was recorded.
C26_EarliestTime ==
    C24_Pushed =>
        \A k \in 1..Len(fnRet[2]) :
            LET date == Get(fnRet[2][k], "date").v
                time == Get(fnRet[2][k], "time").v
                recorded == fnRet[1].dayData[DayIndex(fnRet[1].dayData, date)].dd.times
            IN /\ Range(recorded) = C26_Times(date)
               /\ IF C26_Times(date) = {} THEN time = "00:00"
                  ELSE /\ time \in C26_Times(date)
                       /\ \A t \in C26_Times(date) : t = time \/ StrLess(time, t)

\* a Claude Code log whose later event of the day stands first has given a
\* session with the time of the earlier event
C26_Witness ==
    /\ C24_Pushed
    /\ fnArg.file.lines = <<CcSecond, CcStamped>>
    /\ Len(fnRet[2]) = 1
    /\ fnRet[1].dayData[1].dd.times = <<toLocalTime(Num(DateParse("2025-01-10T11:00:00Z"))).v,
                                        toLocalTime(Num(DateParse("2025-01-10T10:00:00Z"))).v>>
    /\ Get(fnRet[2][1], "time") = toLocalTime(Num(DateParse("2025-01-10T10:00:00Z")))

\* the step that gives through promptTokens and completionTokens the counts
\* that step gives under usage; any other step is left as it is
C27_Flat(step) ==
    IF /\ step.t = "object"
       /\ Get(step, "usage").t = "object"
       /\ Get(step, "promptTokens") = Undef /\ Get(step, "completionTokens") = Undef
    THEN Obj([f \in (DOMAIN step.v \ {"usage"}) \cup {"promptTokens", "completionTokens"} |->
                 CASE f = "promptTokens" -> Num(C14_Count(Get(step, "usage"), "input_tokens"))
                   [] f = "completionTokens" -> Num(C14_Count(Get(step, "usage"), "output_tokens"))
                   [] OTHER -> step.v[f]])
    ELSE step

\* the session document with every step given through promptTokens and
\* completionTokens
C27_FlatFile ==
    LET data == fnArg.file.lines[1]
    IN File(<<Obj([f \in DOMAIN data.v |->
                     IF f \in {"steps", "history"}
                     THEN Arr([i \in 1..Len(data.v[f].v) |-> C27_Flat(data.v[f].v[i])])
                     ELSE data.v[f]])>>,
            fnArg.file.mtime)

C27_Parsed ==
    /\ fnArg.fn = "parse" /\ fnArg.variant = "Continue" /\ fnRet # <<>>
    /\ fnArg.file.lines[1].t = "object"

\* C27: parseContinueFormat treats a step that gives its token counts under
\* step.usage as input_tokens and output_tokens exactly as the step that gives
\* the same counts through promptTokens and completionTokens: the buckets of
\* the document are those of the document with its steps written that way.
C27_UsageStepsCounted ==
    C27_Parsed => fnRet[1] = parseContinueFormat(C27_FlatFile)

\* a session document whose only step gives 1000 input and 500 output tokens
\* under usage has given no bucket
C27_Witness ==
    /\ C27_Parsed
    /\ fnArg.file.lines = <<Obj([steps |-> Arr(<<StUsage>>)])>>
    /\ fnRet[1] = Returned(<<>>)
    /\ parseContinueFormat(C27_FlatFile).dayData # <<>>

\* a line that JSON.parse accepts and that is not an object
C28_NonObject(line) == line # BadJson /\ line.t # "object"

\* the file without its lines that are valid JSON and no object
C28_Objects(file) ==
    File(SelectSeq(file.lines, LAMBDA l : ~C28_NonObject(l)), file.mtime)

C28_Parsed ==
    /\ fnArg.fn = "parse" /\ fnArg.variant \in {"OpenClaw", "ClaudeCode", "Aider"}
    /\ fnRet # <<>>

\* C28: in the line-delimited parsers a line that is valid JSON and not an
\* object, such as null, is skipped: the parser does not throw and returns the
\* buckets of the file's other lines.
C28_NonObjectLinesSkipped ==
    C28_Parsed =>
        /\ ~fnRet[1].threw
        /\ fnRet[1] = Parse(fnArg.variant, C28_Objects(fnArg.file))

\* a Claude Code log with a usage line followed by the line null: the parser
\* has thrown, and the file's usage event is lost with it
C28_Witness ==
    /\ C28_Parsed
    /\ fnArg.variant = "ClaudeCode"
    /\ fnArg.file.lines = <<CcStamped, Null>>
    /\ fnRet[1].threw
    /\ Parse("ClaudeCode", C28_Objects(fnArg.file)).dayData # <<>>

\* no callback of toggleAllDays is pending
C29_NoRowTimer == \A k \in 1..Len(timers) : timers[k].kind # "row"

\* C29: whenever no toggleAllDays timer is pending, the toggle-all button
\* shows 'Collapse All' (class is-expanded) exactly when at least one day row
\* is expanded.
C29_ButtonInSync ==
    C29_NoRowTimer => (btnExpanded <=> expanded # {})

\* toggleAllDays has run and all its timers have fired; every row is
\* collapsed and the button still shows 'Collapse All'
C29_Witness ==
    /\ clicks > 1
    /\ timers = <<>>
    /\ expanded = {}
    /\ btnExpanded

\* no callback of switchView is pending
C30_NoViewTimer == \A k \in 1..Len(timers) : timers[k].kind # "view"

\* C30: once every transition timer has fired, exactly one view has class
\* heatmap-view-active, and it is the view that currentView names.
C30_OneActiveView ==
    C30_NoViewTimer => active = {currentView}

\* a click on the button of the current view changes nothing on the page
C30_SameViewNoOp ==
    [][\A view \in Views :
          (SwitchView(view) /\ view = currentView) =>
              UNCHANGED <<expanded, open, bars, btnExpanded, currentView, toggleShows,
                          active, exiting, timers>>]_vars

\* two switches have been made, their timers have fired, and both views
\* have class heatmap-view-active
C30_Witness ==
    /\ clicks > 1
    /\ timers = <<>>
    /\ currentView = "hours"
    /\ active = Views

====
